---- MODULE Spec2Model ----
(***************************************************************************)
(* Model of the guardian_zkml SHA-256 proof engine                         *)
(* (prover/guardian_zkml/src/lib.rs, circuit.rs) and of the backend's      *)
(* ZkmlService adapter (backend/src/zkml/mod.rs).                          *)
(*                                                                         *)
(* A u32 is kept at its width as a pair <<hi, lo>> of 16-bit halves; a     *)
(* byte string is a sequence of numbers in 0..255.                         *)
(***************************************************************************)
EXTENDS Integers, Sequences, FiniteSets, TLC

VARIABLES
    c_pc,            \* position of the circuit run: "input", "padded", "synthesized"
    c_data,          \* MyCircuit.data, the private preimage
    c_words,         \* the result of data_as_padded_32bit_words
    c_synth,         \* what synthesize assigned and constrained
    INIT_LOCK,       \* std::sync::Once: "INCOMPLETE", "RUNNING", "COMPLETE"
    PROVING_SYSTEM,  \* static mut Option<ProvingSystem>
    setup_runs,      \* number of ProvingSystem::load_or_generate executions
    th,              \* per thread: the call in progress or the last call made
    held,            \* per thread: the value its last generate call returned
    users,           \* table users
    sessions,        \* table user_sessions
    client,          \* the AuthResponse an API client received last
    clock,           \* the wall clock, which is also the database's NOW()
    resp,            \* the last request to the auth service or a middleware, and its outcome
    wallets,         \* table wallets, a row's id is its position
    transactions,    \* table transactions, a row's id is its position
    task             \* per request task of the wallet and transaction services: its position

cvars == <<c_pc, c_data, c_words, c_synth>>
lvars == <<INIT_LOCK, PROVING_SYSTEM, setup_runs, th, held>>
avars == <<users, sessions, client, clock, resp>>
dvars == <<wallets, transactions, task>>
hvars == <<users, sessions, client, clock, resp, wallets, transactions, task>>
vars == <<c_pc, c_data, c_words, c_synth, INIT_LOCK, PROVING_SYSTEM, setup_runs, th, held,
          users, sessions, client, clock, resp, wallets, transactions, task>>

(***************************************************************************)
(* Bounds of the model.                                                    *)
(***************************************************************************)
\* longest preimage the padding specification draws
MaxLen == 130
\* fill patterns of the drawn preimages
NumSeeds == 2
\* threads calling into the library concurrently
NumThreads == 2
\* distinct outcomes of the prover's blinding randomness (OsRng)
NumBlinds == 2
\* distinct readings of the wall clock
NumTimes == 2
\* latest reading of the wall clock the host model follows
MaxClock == 2
\* users of the wallet and transaction routes
NumUsers == 2
\* request tasks running at once
NumTasks == 2
\* distinct public keys
NumKeys == 2
\* rows the wallets table can take
MaxWallets == 2
\* rows the transactions table can take
MaxTransactions == 1
\* executions of the setup closure the model follows
MaxSetupRuns == 3

(***************************************************************************)
(* 32-bit word arithmetic on <<hi, lo>> pairs.                             *)
(***************************************************************************)
RECURSIVE Pow2(_)
Pow2(n) == IF n = 0 THEN 1 ELSE 2 * Pow2(n - 1)

RECURSIVE And16(_, _)
And16(a, b) ==
    IF a = 0 \/ b = 0 THEN 0
    ELSE (a % 2) * (b % 2) + 2 * And16(a \div 2, b \div 2)

Xor16(a, b) == a + b - 2 * And16(a, b)

WAnd(x, y) == <<And16(x[1], y[1]), And16(x[2], y[2])>>
WXor(x, y) == <<Xor16(x[1], y[1]), Xor16(x[2], y[2])>>
WNot(x) == <<65535 - x[1], 65535 - x[2]>>

WAdd(x, y) ==
    LET lo == x[2] + y[2]
        hi == x[1] + y[1] + (lo \div 65536)
    IN  <<hi % 65536, lo % 65536>>

\* rotate right by n, 0 < n < 32
Rotr(x, n) ==
    LET s  == IF n >= 16 THEN <<x[2], x[1]>> ELSE x
        m  == n % 16
        p  == Pow2(m)
        q  == Pow2(16 - m)
    IN  IF m = 0 THEN s
        ELSE <<(s[1] \div p) + (s[2] % p) * q, (s[2] \div p) + (s[1] % p) * q>>

\* shift right by n, 0 < n < 16
Shr(x, n) ==
    LET p == Pow2(n)
        q == Pow2(16 - n)
    IN  <<x[1] \div p, (x[2] \div p) + (x[1] % p) * q>>

(***************************************************************************)
(* The SHA-256 compression function: what Sha256Chip::init_state and       *)
(* Sha256Chip::update arithmetize, and what sha2::Sha256 computes.         *)
(***************************************************************************)
K ==
    <<<<17034, 12184>>, <<28983, 17553>>, <<46528, 64463>>, <<59829, 56229>>,
      <<14678, 49755>>, <<23025, 4593>>, <<37439, 33444>>, <<43804, 24277>>,
      <<55303, 43672>>, <<4739, 23297>>, <<9265, 34238>>, <<21772, 32195>>,
      <<29374, 23924>>, <<32990, 45566>>, <<39900, 1703>>, <<49563, 61812>>,
      <<58523, 27073>>, <<61374, 18310>>, <<4033, 40390>>, <<9228, 41420>>,
      <<11753, 11375>>, <<19060, 33962>>, <<23728, 43484>>, <<30457, 35034>>,
      <<38974, 20818>>, <<43057, 50797>>, <<45059, 10184>>, <<48985, 32711>>,
      <<50912, 3059>>, <<54695, 37191>>, <<1738, 25425>>, <<5161, 10599>>,
      <<10167, 2693>>, <<11803, 8504>>, <<19756, 28156>>, <<21304, 3347>>,
      <<25866, 29524>>, <<30314, 2747>>, <<33218, 51502>>, <<37490, 11397>>,
      <<41663, 59553>>, <<43034, 26187>>, <<49739, 35696>>, <<51052, 20899>>,
      <<53650, 59417>>, <<54937, 1572>>, <<62478, 13701>>, <<4202, 41072>>,
      <<6564, 49430>>, <<7735, 27656>>, <<10056, 30540>>, <<13488, 48309>>,
      <<14620, 3251>>, <<20184, 43594>>, <<23452, 51791>>, <<26670, 28659>>,
      <<29839, 33518>>, <<30885, 25455>>, <<33992, 30740>>, <<36039, 520>>,
      <<37054, 65530>>, <<42064, 27883>>, <<48889, 41975>>, <<50801, 30962>>>>

\* the fixed SHA-256 initial hash state
H0 ==
    <<<<27145, 58983>>, <<47975, 44677>>, <<15470, 62322>>, <<42319, 62778>>,
      <<20750, 21119>>, <<39685, 26764>>, <<8067, 55723>>, <<23520, 52505>>>>

SmallSigma0(x) == WXor(WXor(Rotr(x, 7), Rotr(x, 18)), Shr(x, 3))
SmallSigma1(x) == WXor(WXor(Rotr(x, 17), Rotr(x, 19)), Shr(x, 10))
BigSigma0(x) == WXor(WXor(Rotr(x, 2), Rotr(x, 13)), Rotr(x, 22))
BigSigma1(x) == WXor(WXor(Rotr(x, 6), Rotr(x, 11)), Rotr(x, 25))
Ch(e, f, g) == WXor(WAnd(e, f), WAnd(WNot(e), g))
Maj(a, b, c) == WXor(WXor(WAnd(a, b), WAnd(a, c)), WAnd(b, c))

\* message schedule: words 16..63 derived from words 0..15
RECURSIVE Schedule(_)
Schedule(w) ==
    IF Len(w) = 64 THEN w
    ELSE LET t == Len(w) + 1
             nw == WAdd(WAdd(SmallSigma1(w[t - 2]), w[t - 7]),
                        WAdd(SmallSigma0(w[t - 15]), w[t - 16]))
         IN  Schedule(Append(w, nw))

Round(s, k, w) ==
    LET t1 == WAdd(WAdd(WAdd(s[8], BigSigma1(s[5])), Ch(s[5], s[6], s[7])),
                   WAdd(k, w))
        t2 == WAdd(BigSigma0(s[1]), Maj(s[1], s[2], s[3]))
    IN  <<WAdd(t1, t2), s[1], s[2], s[3], WAdd(s[4], t1), s[5], s[6], s[7]>>

\* the 64 rounds over the eight working variables
RECURSIVE Rounds(_, _, _)
Rounds(s, w, t) ==
    IF Len(s) = 8 /\ t <= 64 THEN Rounds(Round(s, K[t], w[t]), w, t + 1) ELSE s

\* one block: eight state words in, sixteen message words, eight words out
Compress(state, block) ==
    LET r == Rounds(state, Schedule(block), 1)
    IN  [i \in 1..8 |-> WAdd(state[i], r[i])]

(***************************************************************************)
(* Byte strings.                                                           *)
(***************************************************************************)
Byte == 0..255

RECURSIVE Repeat(_, _)
Repeat(b, n) == IF n = 0 THEN <<>> ELSE <<b>> \o Repeat(b, n - 1)

\* u64::to_be_bytes / u32::to_be_bytes: the k low bytes of n, high byte first
RECURSIVE to_be_bytes(_, _)
to_be_bytes(n, k) ==
    IF k = 0 THEN <<>> ELSE Append(to_be_bytes(n \div 256, k - 1), n % 256)

\* u32::from_be_bytes
from_be_bytes(c) == <<c[1] * 256 + c[2], c[3] * 256 + c[4]>>

\* the four bytes of a word, high byte first
WordBytes(x) == <<x[1] \div 256, x[1] % 256, x[2] \div 256, x[2] % 256>>

RECURSIVE Flatten(_)
Flatten(ss) == IF ss = <<>> THEN <<>> ELSE Head(ss) \o Flatten(Tail(ss))

\* the 32 digest bytes of an eight-word state
StateBytes(st) == Flatten([i \in 1..8 |-> WordBytes(st[i])])

(***************************************************************************)
(* MyCircuit::data_as_padded_32bit_words (circuit.rs).                     *)
(***************************************************************************)
\* variant: fills to a whole block before the length is appended
RECURSIVE ZeroFill_to_block(_)
ZeroFill_to_block(padded) ==
    IF Len(padded) % 64 # 0 THEN ZeroFill_to_block(Append(padded, 0)) ELSE padded

\* while padded_data.len() % 64 != 56 { padded_data.push(0x00) }
RECURSIVE ZeroFill(_)
ZeroFill(padded) ==
    IF Len(padded) % 64 # 56 THEN ZeroFill(Append(padded, 0)) ELSE padded

\* chunks_exact(4): the complete 4-byte chunks, a shorter remainder dropped
chunks_exact4(bytes) ==
    [i \in 1..(Len(bytes) \div 4) |-> SubSeq(bytes, 4 * i - 3, 4 * i)]

\* variant: appends the length in bytes instead of bits
padded_bytes_len_in_bytes(data) ==
    ZeroFill(Append(data, 128)) \o to_be_bytes(Len(data), 8)

padded_bytes(data) ==
    LET data_len_bits == Len(data) * 8
        with_one == Append(data, 128)
        filled == ZeroFill(with_one)
    IN  filled \o to_be_bytes(data_len_bits, 8)

data_as_padded_32bit_words(data) ==
    LET chunks == chunks_exact4(padded_bytes(data))
    IN  [i \in 1..Len(chunks) |-> from_be_bytes(chunks[i])]

\* chunks(16): consecutive blocks of up to sixteen words
chunks16(words) ==
    [i \in 1..((Len(words) + 15) \div 16) |->
        SubSeq(words, 16 * i - 15, IF 16 * i <= Len(words) THEN 16 * i ELSE Len(words))]

(***************************************************************************)
(* The reference SHA-256 (sha2::Sha256, RFC 6234).                         *)
(***************************************************************************)
\* the 64-bit big-endian encoding of n, for n below 2^31
BigEndian64(n) ==
    <<0, 0, 0, 0, (n \div 16777216) % 256, (n \div 65536) % 256, (n \div 256) % 256, n % 256>>

RefPadded(data) ==
    LET L == Len(data)
        zeros == CHOOSE k \in 0..63 : (L + 1 + k) % 64 = 56
    IN  data \o <<128>> \o Repeat(0, zeros) \o BigEndian64(8 * L)

RefWords(data) ==
    LET p == RefPadded(data)
    IN  [i \in 1..(Len(p) \div 4) |->
            <<p[4 * i - 3] * 256 + p[4 * i - 2], p[4 * i - 1] * 256 + p[4 * i]>>]

RECURSIVE RefFold(_, _, _)
RefFold(st, words, i) ==
    IF 16 * i > Len(words) THEN st
    ELSE RefFold(Compress(st, SubSeq(words, 16 * i - 15, 16 * i)), words, i + 1)

Sha256(data) == StateBytes(RefFold(H0, RefWords(data), 1))

(***************************************************************************)
(* MyCircuit::synthesize (circuit.rs).  The region it lays out is recorded *)
(* as the sequence of Sha256Chip::update calls, the final state cells and  *)
(* the constrain_instance calls <<state word index, instance row>>.        *)
(***************************************************************************)
update(state, message_block) == Compress(state, message_block)

\* variant: every block is compressed from the initial state
RECURSIVE synthesize_blocks_unchained(_, _, _, _)
synthesize_blocks_unchained(state, blocks, block_idx, calls) ==
    IF block_idx >= Len(blocks) THEN [state |-> state, calls |-> calls]
    ELSE LET block_chunk == blocks[block_idx + 1]
             next_state == update(H0, block_chunk)
         IN  synthesize_blocks_unchained(next_state, blocks, block_idx + 1,
                 Append(calls, [block_idx |-> block_idx,
                                state_in |-> H0,
                                block |-> block_chunk,
                                state_out |-> next_state]))

\* for (block_idx, block_chunk) in data_padded_words.chunks(16).enumerate()
RECURSIVE synthesize_blocks(_, _, _, _)
synthesize_blocks(state, blocks, block_idx, calls) ==
    IF block_idx >= Len(blocks) THEN [state |-> state, calls |-> calls]
    ELSE LET block_chunk == blocks[block_idx + 1]
             next_state == update(state, block_chunk)
         IN  synthesize_blocks(next_state, blocks, block_idx + 1,
                 Append(calls, [block_idx |-> block_idx,
                                state_in |-> state,
                                block |-> block_chunk,
                                state_out |-> next_state]))

\* for (i, hash_word_cell) in state.iter().enumerate().take(1)
constrained_words == {i \in 0..7 : i < 1}

synthesize(data) ==
    LET state0 == H0
        data_padded_words == data_as_padded_32bit_words(data)
        run == synthesize_blocks(state0, chunks16(data_padded_words), 0, <<>>)
    IN  [state |-> run.state,
         calls |-> run.calls,
         instance |-> {<<i, i>> : i \in constrained_words}]

(***************************************************************************)
(* The circuit run: a preimage is padded and then synthesized.             *)
(***************************************************************************)
Fill(seed, i) == IF seed = 1 THEN (37 * i + 11) % 256 ELSE IF seed = 2 THEN 128 ELSE 0

Preimage(len, seed) == [i \in 1..len |-> Fill(seed, i)]

Preimages == {Preimage(len, seed) : len \in 0..MaxLen, seed \in 1..NumSeeds}

NoSynth == [state |-> <<>>, calls |-> <<>>, instance |-> {}]

\* what key generation fixes of a synthesized circuit: the update regions it
\* lays out and the cells it ties to the instance column
circuit_shape(run) == [updates |-> Len(run.calls), instance |-> run.instance]

\* the shape keygen_vk and keygen_pk see: Sha256Circuit::new(vec![])
keygen_shape == circuit_shape(synthesize(<<>>))

Pad ==
    /\ c_pc = "input"
    /\ c_words' = data_as_padded_32bit_words(c_data)
    /\ c_pc' = "padded"
    /\ UNCHANGED <<c_data, c_synth, lvars, hvars>>

Synthesize ==
    /\ c_pc = "padded"
    /\ c_synth' = synthesize(c_data)
    /\ c_pc' = "synthesized"
    /\ UNCHANGED <<c_data, c_words, lvars, hvars>>

(***************************************************************************)
(* The proving library (lib.rs): values.                                   *)
(***************************************************************************)
CIRCUIT_K == 14

Threads == 1..NumThreads

Hello == <<104, 101, 108, 108, 111>>

\* the preimages callers pass: empty, shorter than a block, 64 and 128 bytes
Data == {<<>>, Hello, [i \in 1..64 |-> 42], [i \in 1..128 |-> 42]}

\* CircuitInfo.max_input_size: the input size a k = 14 circuit takes
max_input_size == 8192

\* a preimage one byte longer than the circuit takes
Oversized == [i \in 1..(max_input_size + 1) |-> 42]

\* the preimage the concurrent callers pass
ConcData == {Hello}

\* let test_data = b"health_check"
test_data == <<104, 101, 97, 108, 116, 104, 95, 99, 104, 101, 99, 107>>

\* every preimage that reaches the prover
Inputs == Data \cup {test_data}

\* sha2::Sha256 over the callers' preimages, computed once
Digests == [d \in Inputs |-> Sha256(d)]

sha2_digest(data) == Digests[data]

\* Sha256Circuit::expected_hash: the digest the prover publishes
expected_hash(data) == sha2_digest(data)

\* [0u8; 32]
ZeroHash == [i \in 1..32 |-> 0]

\* the circuit's layout for each of the callers' preimages, computed once
CircuitRuns == [d \in Inputs |-> synthesize(d)]

\* Fp::from(byte as u64); a field element below 2^32 is kept as a word
Fp_from_byte(b) == <<0, b>>

\* hash.iter().map(|&byte| Fp::from(byte as u64)).collect()
public_inputs(hash) == [i \in 1..32 |-> Fp_from_byte(hash[i])]

\* whether the cells synthesize constrains agree with the instance column
instance_constraints_hold(run, instances) ==
    \A c \in run.instance : run.state[c[1] + 1] = instances[c[2] + 1]

Satisfied(data, instances) ==
    \A run \in {CircuitRuns[data]} : instance_constraints_hold(run, instances)

\* proof bytes: an empty byte string, or a transcript made for an instance
EmptyProof == [kind |-> "empty", inst |-> <<>>, sat |-> FALSE, blind |-> 0]

\* halo2 create_proof followed by transcript.finalize()
create_proof(data, instances, blind) ==
    [kind |-> "transcript", inst |-> instances,
     sat |-> Satisfied(data, instances), blind |-> blind]

\* a transcript cut short, and one with flipped bytes
Truncated(p) == [p EXCEPT !.kind = "truncated"]
Corrupted(p) == [p EXCEPT !.kind = "corrupt"]

\* halo2 verify_proof: TRUE for Ok(()), FALSE for Err(_)
plonk_verify_proof(system, instances, proof) ==
    /\ proof.kind = "transcript"
    /\ proof.inst = instances
    /\ proof.sat

\* PROVING_SYSTEM = None
NoSystem == [some |-> FALSE, k |-> 0]

\* ProvingSystem::generate_new, when key generation succeeds
generate_new == [some |-> TRUE, k |-> CIRCUIT_K]

\* ProvingSystem::load_or_generate; ok is whether keygen_vk and keygen_pk succeed
load_or_generate(ok) ==
    IF ok THEN [tag |-> "Ok", system |-> generate_new]
    ELSE [tag |-> "Err", system |-> NoSystem]

\* variant: a failed halo2 verification is propagated as an error
verify_proof_internal_propagating(system, hash, proof_bytes) ==
    IF ~system.some
    THEN [tag |-> "Err", err |-> "Proving system not initialized", bool |-> FALSE]
    ELSE IF plonk_verify_proof(system, public_inputs(hash), proof_bytes)
         THEN [tag |-> "Ok", err |-> "", bool |-> TRUE]
         ELSE [tag |-> "Err", err |-> "Verification failed", bool |-> FALSE]

\* create_proof(...).map_err: the circuit does not fit the 2^CIRCUIT_K rows
proof_creation_failed ==
    [tag |-> "Err", err |-> "Proof creation failed", hash |-> ZeroHash,
     proof |-> EmptyProof, built |-> TRUE]

\* the proof made for the digest the circuit expects, and Ok((hash, proof))
prove_hash(data, hash, blind) ==
    IF Len(data) > max_input_size THEN proof_creation_failed
    ELSE [tag |-> "Ok", err |-> "", hash |-> hash,
          proof |-> create_proof(data, public_inputs(hash), blind), built |-> TRUE]

\* system is what get_proving_system found in PROVING_SYSTEM
generate_proof_internal(system, data, blind) ==
    IF ~system.some
    THEN [tag |-> "Err", err |-> "Proving system not initialized",
          hash |-> ZeroHash, proof |-> EmptyProof, built |-> FALSE]
    ELSE prove_hash(data, expected_hash(data), blind)

verify_proof_internal(system, hash, proof_bytes) ==
    IF ~system.some
    THEN [tag |-> "Err", err |-> "Proving system not initialized", bool |-> FALSE]
    ELSE [tag |-> "Ok", err |-> "",
          bool |-> plonk_verify_proof(system, public_inputs(hash), proof_bytes)]

\* match generate_proof_internal(input): the Output for Ok, the sentinel for Err
match_output(r, data) ==
    IF r.tag = "Ok" THEN [len |-> Len(data), hash |-> r.hash]
    ELSE [len |-> 0, hash |-> ZeroHash]

\* variant: the digest of a successful run is not copied into the Output
generate_proof_slice_drops_hash(system, data, blind) ==
    [match_output(generate_proof_internal(system, data, blind), data)
        EXCEPT !.hash = ZeroHash]

generate_proof_slice(system, data, blind) ==
    match_output(generate_proof_internal(system, data, blind), data)

verify_proof_slice(data, output) == output.hash = sha2_digest(data)

(***************************************************************************)
(* The service adapter (backend/src/zkml/mod.rs).                          *)
(***************************************************************************)
NoZk ==
    [proof_data |-> EmptyProof, public_inputs |-> <<>>, circuit_type |-> "",
     hash |-> <<>>, created_at |-> 0]

\* Error::into_response: the HTTP status of the ZK proof and availability errors
into_response(kind) ==
    CASE kind = "ProofGenerationFailed" -> "INTERNAL_SERVER_ERROR"
      [] kind = "ProofVerificationFailed" -> "BAD_REQUEST"
      [] kind = "ServiceUnavailable" -> "SERVICE_UNAVAILABLE"
      [] kind \in {"AuthenticationFailed", "Unauthorized", "InvalidToken"} -> "UNAUTHORIZED"
      [] kind \in {"TransactionFailed", "InvalidRequest", "BadRequest"} -> "BAD_REQUEST"
      [] kind = "Validation" -> "UNPROCESSABLE_ENTITY"
      [] kind = "ExternalService" -> "BAD_GATEWAY"
      [] kind = "NotFound" -> "NOT_FOUND"
      [] kind = "Forbidden" -> "FORBIDDEN"
      [] kind = "RateLimitExceeded" -> "TOO_MANY_REQUESTS"
      [] OTHER -> "INTERNAL_SERVER_ERROR"

\* variant: only the length of the Output is checked
check_output_len_only(output, data, now) ==
    IF output.len = 0 /\ data # <<>>
    THEN [tag |-> "Err", kind |-> "ProofGenerationFailed",
          err |-> "Proof generation failed - prover returned empty result", zk |-> NoZk]
    ELSE [tag |-> "Ok", kind |-> "", err |-> "",
          zk |-> [proof_data |-> EmptyProof, public_inputs |-> output.hash,
                  circuit_type |-> "sha256", hash |-> output.hash, created_at |-> now]]

\* the checks on the prover's Output and the ZkProof built from it
check_output(output, data, now) ==
    LET failed(msg) ==
            [tag |-> "Err", kind |-> "ProofGenerationFailed", err |-> msg, zk |-> NoZk]
    IN  IF output.len = 0 /\ data # <<>>
        THEN failed("Proof generation failed - prover returned empty result")
        ELSE IF data = <<>> /\ output.hash = ZeroHash
        THEN failed("Proof generation failed for empty data")
        ELSE IF data = <<>> /\ output.hash # sha2_digest(data)
        THEN failed("Hash mismatch for empty data proof")
        ELSE [tag |-> "Ok", kind |-> "", err |-> "",
              zk |-> [proof_data |-> EmptyProof,
                      public_inputs |-> output.hash,
                      circuit_type |-> "sha256",
                      hash |-> output.hash,
                      created_at |-> now]]

generate_sha256_proof(system, data, blind, now) ==
    check_output(generate_proof_slice(system, data, blind), data, now)

\* variant: the proof is checked against its own public inputs, not the data
verify_sha256_proof_self(proof, original_data) ==
    [tag |-> "Ok", bool |-> proof.hash = proof.public_inputs]

verify_sha256_proof(proof, original_data) ==
    LET output == [len |-> Len(original_data), hash |-> proof.hash]
    IN  [tag |-> "Ok", bool |-> verify_proof_slice(original_data, output)]

\* ZkmlService::health_check
health_check(system, blind) ==
    [tag |-> "Ok", bool |-> generate_proof_slice(system, test_data, blind).len > 0]

NoStatus ==
    [available |-> FALSE, circuit_size |-> "", estimated_setup_time_ms |-> 0,
     last_health_check |-> 0, error |-> ""]

\* match self.health_check(): the ProverStatus for Ok(true), for Ok(false) | Err(_)
match_health(r, now) ==
    IF r.tag = "Ok" /\ r.bool
    THEN [available |-> TRUE, circuit_size |-> "2^14 = 16384 rows",
          estimated_setup_time_ms |-> 3400, last_health_check |-> now, error |-> ""]
    ELSE [available |-> FALSE, circuit_size |-> "Unknown",
          estimated_setup_time_ms |-> 0, last_health_check |-> now,
          error |-> "Prover system not responding"]

\* ZkmlService::get_status
get_status(system, blind, now) == match_health(health_check(system, blind), now)

(***************************************************************************)
(* ZkProof as JSON (#[derive(Serialize, Deserialize)], serde_json, chrono). *)
(* Numbers are written as decimal digit strings; a DateTime<Utc>, a count   *)
(* of nanoseconds here, as seconds and a fraction of 0, 3, 6 or 9 digits.   *)
(***************************************************************************)
RECURSIVE Digits(_)
Digits(n) == IF n < 10 THEN <<n>> ELSE Append(Digits(n \div 10), n % 10)

RECURSIVE ParseDigits(_)
ParseDigits(ds) ==
    IF ds = <<>> THEN 0
    ELSE 10 * ParseDigits(SubSeq(ds, 1, Len(ds) - 1)) + ds[Len(ds)]

\* n written with exactly k digits
RECURSIVE FixedDigits(_, _)
FixedDigits(n, k) ==
    IF k = 0 THEN <<>> ELSE Append(FixedDigits(n \div 10, k - 1), n % 10)

\* Vec<u8> and [u8; 32] as a JSON array of numbers
bytes_to_json(bytes) == [i \in 1..Len(bytes) |-> Digits(bytes[i])]

\* whether every number of the array is a u8
bytes_valid(arr) == \A i \in 1..Len(arr) : ParseDigits(arr[i]) \in Byte

\* the array read back as u8 values
bytes_from_json(arr) == [i \in 1..Len(arr) |-> ParseDigits(arr[i])]

\* variant: the timestamp is written with millisecond precision
datetime_to_json_millis(n) ==
    [secs |-> Digits(n \div 1000000000),
     frac |-> FixedDigits((n % 1000000000) \div 1000000, 3)]

\* chrono's serde format: RFC 3339 with the shortest exact fraction
datetime_to_json(n) ==
    LET nanos == n % 1000000000
    IN  [secs |-> Digits(n \div 1000000000),
         frac |-> IF nanos = 0 THEN <<>>
                  ELSE IF nanos % 1000000 = 0 THEN FixedDigits(nanos \div 1000000, 3)
                  ELSE IF nanos % 1000 = 0 THEN FixedDigits(nanos \div 1000, 6)
                  ELSE FixedDigits(nanos, 9)]

datetime_from_json(j) ==
    ParseDigits(j.secs) * 1000000000
        + ParseDigits(j.frac \o [i \in 1..(9 - Len(j.frac)) |-> 0])

\* the bytes of proof_data; the service stores vec![]
proof_data_bytes(p) == IF p.kind = "empty" THEN <<>> ELSE <<p.blind>>

\* serde_json::to_string(&proof)
to_json(zk) ==
    [proof_data |-> bytes_to_json(proof_data_bytes(zk.proof_data)),
     public_inputs |-> bytes_to_json(zk.public_inputs),
     circuit_type |-> [quoted |-> zk.circuit_type],
     hash |-> bytes_to_json(zk.hash),
     created_at |-> datetime_to_json(zk.created_at)]

\* serde_json::from_str::<ZkProof>
from_json(j) ==
    IF \/ ~bytes_valid(j.proof_data)
       \/ ~bytes_valid(j.public_inputs)
       \/ ~bytes_valid(j.hash)
       \/ Len(j.hash) # 32
    THEN [tag |-> "Err", zk |-> NoZk]
    ELSE [tag |-> "Ok",
          zk |-> [proof_data |-> IF bytes_from_json(j.proof_data) = <<>> THEN EmptyProof
                                 ELSE [EmptyProof EXCEPT !.kind = "bytes"],
                  public_inputs |-> bytes_from_json(j.public_inputs),
                  circuit_type |-> j.circuit_type.quoted,
                  hash |-> bytes_from_json(j.hash),
                  created_at |-> datetime_from_json(j.created_at)]]

(***************************************************************************)
(* The generate-proof request of the HTTP API.  A base64 string is a        *)
(* sequence of characters: 0..63 are the characters of the standard         *)
(* alphabet by value, 64 is '=' and 65 a character outside the alphabet.    *)
(***************************************************************************)
B64Chars == 0..63
B64Pad == 64
B64Other == 65

\* the byte at position j of b, 0 past its end
ByteAt(b, j) == IF j <= Len(b) THEN b[j] ELSE 0

\* general_purpose::STANDARD.encode
base64_encode(b) ==
    [i \in 1..(4 * ((Len(b) + 2) \div 3)) |->
        LET g == 3 * ((i - 1) \div 4)
            k == (i - 1) % 4
        IN  IF g + k > Len(b) THEN B64Pad
            ELSE CASE k = 0 -> ByteAt(b, g + 1) \div 4
                   [] k = 1 -> (ByteAt(b, g + 1) % 4) * 16 + ByteAt(b, g + 2) \div 16
                   [] k = 2 -> (ByteAt(b, g + 2) % 16) * 4 + ByteAt(b, g + 3) \div 64
                   [] OTHER -> ByteAt(b, g + 3) % 64]

\* the number of '=' that end s, at most two
trailing_padding(s) ==
    IF Len(s) >= 1 /\ s[Len(s)] = B64Pad
    THEN IF Len(s) >= 2 /\ s[Len(s) - 1] = B64Pad THEN 2 ELSE 1
    ELSE 0

\* whether general_purpose::STANDARD.decode accepts s: whole quantums,
\* alphabet characters before a canonical padding, no stray trailing bits
base64_valid(s) ==
    /\ Len(s) % 4 = 0
    /\ \A i \in 1..(Len(s) - trailing_padding(s)) : s[i] \in B64Chars
    /\ trailing_padding(s) = 1 => s[Len(s) - 1] % 4 = 0
    /\ trailing_padding(s) = 2 => s[Len(s) - 2] % 16 = 0

\* the sextet at position i of s, 0 for padding
SextetAt(s, i) == IF s[i] \in B64Chars THEN s[i] ELSE 0

\* the bytes general_purpose::STANDARD.decode returns for a valid s
base64_decode(s) ==
    [j \in 1..(3 * (Len(s) \div 4) - trailing_padding(s)) |->
        LET g == 4 * ((j - 1) \div 3)
            k == (j - 1) % 3
        IN  CASE k = 0 -> SextetAt(s, g + 1) * 4 + SextetAt(s, g + 2) \div 16
              [] k = 1 -> (SextetAt(s, g + 2) % 16) * 16 + SextetAt(s, g + 3) \div 4
              [] OTHER -> (SextetAt(s, g + 3) % 4) * 64 + SextetAt(s, g + 4)]

\* strings that are not base64: a character outside the alphabet, a cut
\* quantum, padding in the middle, stray bits before the padding
BadBase64 ==
    {<<18, 6, 21, 65>>, <<18, 6, 21>>, <<18, 64, 21, 44>>, <<18, 7, 64, 64>>}

\* GenerateProofRequest.data as the clients send it
RequestData == {base64_encode(d) : d \in Data} \cup BadBase64

\* GenerateProofRequest.circuit_type: Option<String> as <<>> or <<s>>
CircuitTypes == {<<>>, <<"sha256">>, <<"groth16">>}

NoRequest == [data |-> <<>>, circuit_type |-> <<>>, made |-> FALSE]

\* variant: the circuit type is not looked at
check_request_any_circuit(req) ==
    IF ~base64_valid(req.data)
    THEN [tag |-> "Err", kind |-> "BadRequest", err |-> "Invalid base64 data", data |-> <<>>]
    ELSE [tag |-> "Ok", kind |-> "", err |-> "", data |-> base64_decode(req.data)]

\* generate_proof (handler), up to the call of the service: the decoded
\* data, or the error returned before that call
check_request(req) ==
    IF ~base64_valid(req.data)
    THEN [tag |-> "Err", kind |-> "BadRequest", err |-> "Invalid base64 data", data |-> <<>>]
    ELSE IF (IF req.circuit_type = <<>> THEN "sha256" ELSE req.circuit_type[1]) # "sha256"
    THEN [tag |-> "Err", kind |-> "BadRequest",
          err |-> "Only SHA256 circuit is currently supported", data |-> <<>>]
    ELSE [tag |-> "Ok", kind |-> "", err |-> "", data |-> base64_decode(req.data)]

(***************************************************************************)
(* Callers.  A thread is idle (holding the record of its last call) or     *)
(* inside get_proving_system: at call_once, running the closure, or about  *)
(* to read PROVING_SYSTEM and finish its call.                             *)
(***************************************************************************)
IdleCall ==
    [pc |-> "idle", op |-> "none", arrived |-> "", data |-> <<>>, hash |-> <<>>,
     proof |-> EmptyProof, zk |-> NoZk, of |-> <<>>, var |-> "",
     ret |-> "none", bool |-> FALSE, err |-> "", saw |-> NoSystem,
     status |-> NoStatus, kind |-> "", built |-> FALSE,
     again |-> FALSE, prev_ret |-> "none", prev_bool |-> FALSE,
     code |-> 0, ptrs |-> <<FALSE, FALSE, FALSE>>, read |-> FALSE, back |-> NoZk,
     req |-> NoRequest]

NoHeld ==
    [kind |-> "none", of |-> <<>>, hash |-> <<>>, proof |-> EmptyProof,
     len |-> 0, zk |-> NoZk]

\* a call that goes through get_proving_system, at its entry
NewCall(op) ==
    [IdleCall EXCEPT !.pc = "call_once", !.op = op, !.arrived = INIT_LOCK]

\* call c, about to be made by t, repeats with the same arguments the verify
\* call t made last; it then carries what that call returned
Repeated(t, c) ==
    IF /\ th[t].ret # "none" /\ th[t].op = c.op
       /\ <<th[t].data, th[t].hash, th[t].proof, th[t].zk>> = <<c.data, c.hash, c.proof, c.zk>>
    THEN [c EXCEPT !.again = TRUE, !.prev_ret = th[t].ret, !.prev_bool = th[t].bool]
    ELSE c

LibStart ==
    /\ INIT_LOCK = "INCOMPLETE"
    /\ PROVING_SYSTEM = NoSystem
    /\ setup_runs = 0
    /\ th = [t \in Threads |-> IdleCall]
    /\ held = [t \in Threads |-> NoHeld]

CircuitIdle ==
    /\ c_pc = "idle"
    /\ c_data = <<>>
    /\ c_words = <<>>
    /\ c_synth = NoSynth

Call_generate_proof_with_proof(t, d) ==
    /\ th[t].pc = "idle"
    /\ th' = [th EXCEPT ![t] = [NewCall("generate_proof_with_proof") EXCEPT !.data = d]]
    /\ UNCHANGED <<INIT_LOCK, PROVING_SYSTEM, setup_runs, held, cvars, hvars>>

Call_generate_proof_slice(t, d) ==
    /\ th[t].pc = "idle"
    /\ th' = [th EXCEPT ![t] = [NewCall("generate_proof_slice") EXCEPT !.data = d]]
    /\ UNCHANGED <<INIT_LOCK, PROVING_SYSTEM, setup_runs, held, cvars, hvars>>

Call_generate_sha256_proof(t, d) ==
    /\ th[t].pc = "idle"
    /\ th' = [th EXCEPT ![t] = [NewCall("generate_sha256_proof") EXCEPT !.data = d]]
    /\ UNCHANGED <<INIT_LOCK, PROVING_SYSTEM, setup_runs, held, cvars, hvars>>

\* POST /zkml/generate: the handler returns its own error, or calls
\* ZkmlService::generate_sha256_proof with the decoded data
Handle_generate_proof(t, data, circuit_type) ==
    /\ th[t].pc = "idle"
    /\ \E c \in {check_request([data |-> data, circuit_type |-> circuit_type,
                                 made |-> TRUE])} :
          th' = [th EXCEPT ![t] =
                   IF c.tag = "Err"
                   THEN [IdleCall EXCEPT !.op = "generate_proof_handler",
                            !.arrived = INIT_LOCK, !.ret = "Err", !.kind = c.kind,
                            !.err = c.err,
                            !.req = [data |-> data, circuit_type |-> circuit_type,
                                     made |-> TRUE]]
                   ELSE [NewCall("generate_sha256_proof") EXCEPT !.data = c.data,
                            !.req = [data |-> data, circuit_type |-> circuit_type,
                                     made |-> TRUE]]]
    /\ UNCHANGED <<INIT_LOCK, PROVING_SYSTEM, setup_runs, held, cvars, hvars>>

Call_health_check(t) ==
    /\ th[t].pc = "idle"
    /\ th' = [th EXCEPT ![t] = [NewCall("health_check") EXCEPT !.data = test_data]]
    /\ UNCHANGED <<INIT_LOCK, PROVING_SYSTEM, setup_runs, held, cvars, hvars>>

Call_get_status(t) ==
    /\ th[t].pc = "idle"
    /\ th' = [th EXCEPT ![t] = [NewCall("get_status") EXCEPT !.data = test_data]]
    /\ UNCHANGED <<INIT_LOCK, PROVING_SYSTEM, setup_runs, held, cvars, hvars>>

\* verify_proof_with_proof on the pair its last generate returned ("same"),
\* on that proof with the digest of d ("other_digest"), on that digest with
\* the proof cut short or altered, or on an empty proof with the digest of d
VerifyVariants == {"same", "other_digest", "truncated", "corrupt", "empty"}

Call_verify_proof_with_proof(t, var, d) ==
    /\ th[t].pc = "idle"
    /\ var # "empty" => held[t].kind = "pair"
    /\ var = "other_digest" => sha2_digest(d) # held[t].hash
    /\ var \in {"same", "truncated", "corrupt"} => d = held[t].of
    /\ LET h == IF var \in {"other_digest", "empty"} THEN sha2_digest(d) ELSE held[t].hash
           p == CASE var = "truncated" -> Truncated(held[t].proof)
                  [] var = "corrupt" -> Corrupted(held[t].proof)
                  [] var = "empty" -> EmptyProof
                  [] OTHER -> held[t].proof
       IN  th' = [th EXCEPT ![t] = Repeated(t,
                    [NewCall("verify_proof_with_proof") EXCEPT
                        !.data = d, !.hash = h, !.proof = p, !.var = var,
                        !.of = IF var = "empty" THEN d ELSE held[t].of])]
    /\ UNCHANGED <<INIT_LOCK, PROVING_SYSTEM, setup_runs, held, cvars, hvars>>

\* variant: a caller that finds the closure running does not wait for it
CallOnce_no_wait(t) ==
    /\ th[t].pc = "call_once"
    /\ \/ /\ INIT_LOCK = "INCOMPLETE"
          /\ setup_runs < MaxSetupRuns
          /\ INIT_LOCK' = "RUNNING"
          /\ th' = [th EXCEPT ![t].pc = "closure"]
       \/ /\ INIT_LOCK \in {"RUNNING", "COMPLETE"}
          /\ th' = [th EXCEPT ![t].pc = "read"]
          /\ UNCHANGED INIT_LOCK
    /\ UNCHANGED <<PROVING_SYSTEM, setup_runs, held, cvars, hvars>>

\* variant: every caller that finds no proving system runs the closure itself
CallOnce_unguarded(t) ==
    /\ th[t].pc = "call_once"
    /\ \/ /\ ~PROVING_SYSTEM.some
          /\ setup_runs < MaxSetupRuns
          /\ INIT_LOCK' = "RUNNING"
          /\ th' = [th EXCEPT ![t].pc = "closure"]
       \/ /\ PROVING_SYSTEM.some
          /\ th' = [th EXCEPT ![t].pc = "read"]
          /\ UNCHANGED INIT_LOCK
    /\ UNCHANGED <<PROVING_SYSTEM, setup_runs, held, cvars, hvars>>

\* variant: no Once, a caller that finds no closure running runs it again
CallOnce_every_call(t) ==
    /\ th[t].pc = "call_once"
    /\ INIT_LOCK \in {"INCOMPLETE", "COMPLETE"}
    /\ setup_runs < MaxSetupRuns
    /\ INIT_LOCK' = "RUNNING"
    /\ th' = [th EXCEPT ![t].pc = "closure"]
    /\ UNCHANGED <<PROVING_SYSTEM, setup_runs, held, cvars, hvars>>

\* INIT_LOCK.call_once: the first caller runs the closure, a caller that
\* finds it running blocks, a caller that finds it complete goes on
CallOnce(t) ==
    /\ th[t].pc = "call_once"
    /\ \/ /\ INIT_LOCK = "INCOMPLETE"
          /\ setup_runs < MaxSetupRuns
          /\ INIT_LOCK' = "RUNNING"
          /\ th' = [th EXCEPT ![t].pc = "closure"]
       \/ /\ INIT_LOCK = "COMPLETE"
          /\ th' = [th EXCEPT ![t].pc = "read"]
          /\ UNCHANGED INIT_LOCK
    /\ UNCHANGED <<PROVING_SYSTEM, setup_runs, held, cvars, hvars>>

\* variant: a failed closure leaves the Once incomplete, so a later call retries
RunClosure_retrying(t, ok) ==
    /\ th[t].pc = "closure"
    /\ PROVING_SYSTEM' = IF ok THEN load_or_generate(ok).system ELSE PROVING_SYSTEM
    /\ setup_runs' = setup_runs + 1
    /\ INIT_LOCK' = IF ok THEN "COMPLETE" ELSE "INCOMPLETE"
    /\ th' = [th EXCEPT ![t].pc = IF ok THEN "read" ELSE "call_once"]
    /\ UNCHANGED <<held, cvars, hvars>>

\* the closure: load_or_generate, PROVING_SYSTEM = Some(system) on success
RunClosure(t, ok) ==
    /\ th[t].pc = "closure"
    /\ LET r == load_or_generate(ok)
       IN  PROVING_SYSTEM' = IF r.tag = "Ok" THEN r.system ELSE PROVING_SYSTEM
    /\ setup_runs' = setup_runs + 1
    /\ INIT_LOCK' = "COMPLETE"
    /\ th' = [th EXCEPT ![t].pc = "read"]
    /\ UNCHANGED <<held, cvars, hvars>>

Return_generate_proof_with_proof(t, blind) ==
    /\ th[t].pc = "read"
    /\ th[t].op = "generate_proof_with_proof"
    /\ \E r \in {generate_proof_internal(PROVING_SYSTEM, th[t].data, blind)} :
           /\ th' = [th EXCEPT ![t].pc = "idle", ![t].ret = r.tag, ![t].err = r.err,
                               ![t].saw = PROVING_SYSTEM]
           /\ held' = IF r.tag = "Ok"
                      THEN [held EXCEPT ![t] = [NoHeld EXCEPT !.kind = "pair",
                               !.of = th[t].data, !.hash = r.hash, !.proof = r.proof]]
                      ELSE held
    /\ UNCHANGED <<INIT_LOCK, PROVING_SYSTEM, setup_runs, cvars, hvars>>

\* variant: a verification consumes the proof the caller holds
Return_verify_proof_with_proof_consuming(t) ==
    /\ th[t].pc = "read"
    /\ th[t].op = "verify_proof_with_proof"
    /\ \E r \in {verify_proof_internal(PROVING_SYSTEM, th[t].hash, th[t].proof)} :
           th' = [th EXCEPT ![t].pc = "idle", ![t].ret = r.tag, ![t].err = r.err,
                            ![t].bool = r.bool, ![t].saw = PROVING_SYSTEM]
    /\ held' = [held EXCEPT ![t] = NoHeld]
    /\ UNCHANGED <<INIT_LOCK, PROVING_SYSTEM, setup_runs, cvars, hvars>>

Return_verify_proof_with_proof(t) ==
    /\ th[t].pc = "read"
    /\ th[t].op = "verify_proof_with_proof"
    /\ \E r \in {verify_proof_internal(PROVING_SYSTEM, th[t].hash, th[t].proof)} :
           th' = [th EXCEPT ![t].pc = "idle", ![t].ret = r.tag, ![t].err = r.err,
                            ![t].bool = r.bool, ![t].saw = PROVING_SYSTEM]
    /\ UNCHANGED <<INIT_LOCK, PROVING_SYSTEM, setup_runs, held, cvars, hvars>>

Return_generate_proof_slice(t, blind) ==
    /\ th[t].pc = "read"
    /\ th[t].op = "generate_proof_slice"
    /\ \E output \in {generate_proof_slice(PROVING_SYSTEM, th[t].data, blind)} :
           /\ th' = [th EXCEPT ![t].pc = "idle", ![t].ret = "Plain",
                               ![t].saw = PROVING_SYSTEM]
           /\ held' = [held EXCEPT ![t] = [NoHeld EXCEPT !.kind = "output",
                          !.of = th[t].data, !.hash = output.hash, !.len = output.len]]
    /\ UNCHANGED <<INIT_LOCK, PROVING_SYSTEM, setup_runs, cvars, hvars>>

Return_generate_sha256_proof(t, blind, now) ==
    /\ th[t].pc = "read"
    /\ th[t].op = "generate_sha256_proof"
    /\ \E r \in {generate_sha256_proof(PROVING_SYSTEM, th[t].data, blind, now)} :
           /\ th' = [th EXCEPT ![t].pc = "idle", ![t].ret = r.tag, ![t].err = r.err,
                               ![t].kind = r.kind, ![t].saw = PROVING_SYSTEM,
                               ![t].built =
                                   generate_proof_internal(PROVING_SYSTEM, th[t].data,
                                                           blind).built]
           /\ held' = IF r.tag = "Ok"
                      THEN [held EXCEPT ![t] = [NoHeld EXCEPT !.kind = "zkproof",
                               !.of = th[t].data, !.zk = r.zk]]
                      ELSE held
    /\ UNCHANGED <<INIT_LOCK, PROVING_SYSTEM, setup_runs, cvars, hvars>>

Return_health_check(t, blind) ==
    /\ th[t].pc = "read"
    /\ th[t].op = "health_check"
    /\ \E r \in {health_check(PROVING_SYSTEM, blind)} :
           th' = [th EXCEPT ![t].pc = "idle", ![t].ret = r.tag, ![t].bool = r.bool,
                            ![t].saw = PROVING_SYSTEM]
    /\ UNCHANGED <<INIT_LOCK, PROVING_SYSTEM, setup_runs, held, cvars, hvars>>

Return_get_status(t, blind, now) ==
    /\ th[t].pc = "read"
    /\ th[t].op = "get_status"
    /\ \E r \in {get_status(PROVING_SYSTEM, blind, now)} :
           th' = [th EXCEPT ![t].pc = "idle", ![t].ret = "Plain", ![t].status = r,
                            ![t].saw = PROVING_SYSTEM]
    /\ UNCHANGED <<INIT_LOCK, PROVING_SYSTEM, setup_runs, held, cvars, hvars>>

\* verify_proof_slice(d, output) on the Output its last generate_proof_slice returned
Do_verify_proof_slice(t, d) ==
    /\ th[t].pc = "idle"
    /\ held[t].kind = "output"
    /\ LET output == [len |-> held[t].len, hash |-> held[t].hash]
       IN  th' = [th EXCEPT ![t] = Repeated(t,
                    [IdleCall EXCEPT !.op = "verify_proof_slice", !.data = d,
                        !.hash = output.hash, !.of = held[t].of,
                        !.var = IF d = held[t].of THEN "same" ELSE "other_data",
                        !.ret = "Plain", !.bool = verify_proof_slice(d, output)])]
    /\ UNCHANGED <<INIT_LOCK, PROVING_SYSTEM, setup_runs, held, cvars, hvars>>

\* ZkmlService::verify_sha256_proof(proof, d) on the ZkProof its last generate returned
Do_verify_sha256_proof(t, d) ==
    /\ th[t].pc = "idle"
    /\ held[t].kind = "zkproof"
    /\ \E r \in {verify_sha256_proof(held[t].zk, d)} :
           th' = [th EXCEPT ![t] = Repeated(t,
                    [IdleCall EXCEPT !.op = "verify_sha256_proof", !.data = d,
                        !.hash = held[t].zk.hash, !.zk = held[t].zk, !.of = held[t].of,
                        !.var = IF d = held[t].of THEN "same" ELSE "other_data",
                        !.ret = r.tag, !.bool = r.bool])]
    /\ UNCHANGED <<INIT_LOCK, PROVING_SYSTEM, setup_runs, held, cvars, hvars>>

\* the Output behind the caller's output pointer: the one its last
\* generate wrote, or a zeroed one
OutputOf(t) ==
    IF held[t].kind = "output" THEN [len |-> held[t].len, hash |-> held[t].hash]
    ELSE [len |-> 0, hash |-> ZeroHash]

\* the null checks of both FFI entry points; ptrs says which of input_ptr,
\* the output pointer and input.data are null
ffi_validate(ptrs) ==
    IF ptrs[1] \/ ptrs[2] THEN -1
    ELSE IF ptrs[3] THEN -2
    ELSE 0

\* extern "C" generate_proof, up to its call of generate_proof_internal
Call_generate_proof(t, ptrs, d) ==
    /\ th[t].pc = "idle"
    /\ th' = [th EXCEPT ![t] =
                 IF ffi_validate(ptrs) # 0
                 THEN [IdleCall EXCEPT !.op = "generate_proof", !.ptrs = ptrs,
                          !.arrived = INIT_LOCK, !.ret = "Code", !.code = ffi_validate(ptrs)]
                 ELSE [NewCall("generate_proof") EXCEPT !.ptrs = ptrs, !.data = d,
                          !.read = TRUE]]
    /\ UNCHANGED <<INIT_LOCK, PROVING_SYSTEM, setup_runs, held, cvars, hvars>>

\* variant: the Output is written before the result is matched
Return_generate_proof_writes_first(t, blind) ==
    /\ th[t].pc = "read"
    /\ th[t].op = "generate_proof"
    /\ \E r \in {generate_proof_internal(PROVING_SYSTEM, th[t].data, blind)} :
           /\ th' = [th EXCEPT ![t].pc = "idle", ![t].ret = "Code",
                               ![t].code = IF r.tag = "Ok" THEN 0 ELSE -3,
                               ![t].saw = PROVING_SYSTEM]
           /\ held' = [held EXCEPT ![t] = [NoHeld EXCEPT !.kind = "output",
                          !.of = th[t].data, !.len = Len(th[t].data), !.hash = r.hash]]
    /\ UNCHANGED <<INIT_LOCK, PROVING_SYSTEM, setup_runs, cvars, hvars>>

\* extern "C" generate_proof: match generate_proof_internal(data_slice)
Return_generate_proof(t, blind) ==
    /\ th[t].pc = "read"
    /\ th[t].op = "generate_proof"
    /\ \E r \in {generate_proof_internal(PROVING_SYSTEM, th[t].data, blind)} :
           /\ th' = [th EXCEPT ![t].pc = "idle", ![t].ret = "Code",
                               ![t].code = IF r.tag = "Ok" THEN 0 ELSE -3,
                               ![t].saw = PROVING_SYSTEM]
           /\ held' = IF r.tag = "Ok"
                      THEN [held EXCEPT ![t] = [NoHeld EXCEPT !.kind = "output",
                               !.of = th[t].data, !.len = Len(th[t].data), !.hash = r.hash]]
                      ELSE held
    /\ UNCHANGED <<INIT_LOCK, PROVING_SYSTEM, setup_runs, cvars, hvars>>

\* extern "C" verify_proof_ffi
Do_verify_proof_ffi(t, ptrs, d) ==
    /\ th[t].pc = "idle"
    /\ th' = [th EXCEPT ![t] =
                 IF ffi_validate(ptrs) # 0
                 THEN [IdleCall EXCEPT !.op = "verify_proof_ffi", !.ptrs = ptrs,
                          !.arrived = INIT_LOCK, !.ret = "Code", !.code = ffi_validate(ptrs)]
                 ELSE [IdleCall EXCEPT !.op = "verify_proof_ffi", !.ptrs = ptrs,
                          !.arrived = INIT_LOCK, !.data = d, !.read = TRUE,
                          !.hash = OutputOf(t).hash, !.ret = "Code",
                          !.code = IF verify_proof_slice(d, OutputOf(t)) THEN 0 ELSE 1]]
    /\ UNCHANGED <<INIT_LOCK, PROVING_SYSTEM, setup_runs, held, cvars, hvars>>

\* test_proof_serialization: the ZkProof the last generate returned goes
\* through serde_json::to_string and serde_json::from_str
Do_json_round_trip(t) ==
    /\ th[t].pc = "idle"
    /\ held[t].kind = "zkproof"
    /\ \E r \in {from_json(to_json(held[t].zk))} :
           th' = [th EXCEPT ![t] =
                    [IdleCall EXCEPT !.op = "json_round_trip", !.zk = held[t].zk,
                        !.of = held[t].of, !.arrived = INIT_LOCK,
                        !.ret = r.tag, !.back = r.zk]]
    /\ UNCHANGED <<INIT_LOCK, PROVING_SYSTEM, setup_runs, held, cvars, hvars>>

\* a ZkProof a request carries: the digest of d0 and no proof bytes
RequestProof(d0) ==
    [proof_data |-> EmptyProof, public_inputs |-> sha2_digest(d0),
     circuit_type |-> "sha256", hash |-> sha2_digest(d0), created_at |-> 0]

\* ZkmlService::verify_sha256_proof(&req.proof, d) on a proof the host supplies
Do_verify_sha256_proof_request(t, d0, d) ==
    /\ th[t].pc = "idle"
    /\ \E r \in {verify_sha256_proof(RequestProof(d0), d)} :
           th' = [th EXCEPT ![t] = Repeated(t,
                    [IdleCall EXCEPT !.op = "verify_sha256_proof", !.data = d,
                        !.hash = RequestProof(d0).hash, !.zk = RequestProof(d0),
                        !.of = d0, !.arrived = INIT_LOCK,
                        !.var = IF d = d0 THEN "same" ELSE "other_data",
                        !.ret = r.tag, !.bool = r.bool])]
    /\ UNCHANGED <<INIT_LOCK, PROVING_SYSTEM, setup_runs, held, cvars, hvars>>

(***************************************************************************)
(* Specifications.                                                         *)
(***************************************************************************)
\* one caller using the library and the service
(***************************************************************************)
(* Authentication: AuthService (backend/src/services/auth.rs) and the JWT   *)
(* middleware (backend/src/api/middleware/auth.rs).  Times are clock ticks  *)
(* longer than any validation leeway.  A string that the code takes apart   *)
(* is kept as the sequence of its parts.                                    *)
(***************************************************************************)
\* config.auth.jwt_secret and a secret the server does not use
jwt_secret == "configured-secret"
Secrets == {jwt_secret, "wrong-secret"}

\* config.auth.jwt_expiration and refresh_token_expiration, in ticks
jwt_expiration == 1
refresh_token_expiration == 2

\* Uuid::to_string, and a string that is no UUID
uuid_to_string(id) == [fmt |-> "hyphenated", uuid |-> id]
NotAUuid == [fmt |-> "text", uuid |-> 0]

\* Uuid::parse_str
parse_str(str) ==
    IF str.fmt = "hyphenated" THEN [tag |-> "Ok", uuid |-> str.uuid]
    ELSE [tag |-> "Err", uuid |-> 0]

EmailA == <<"a", "@", "x">>
EmailB == <<"b", "@", "x">>
Emails == {EmailA, EmailB, <<"a", "x", "x">>}
Passwords == {[i \in 1..8 |-> "p"], <<"p", "p", "p">>}

NoClaims == [sub |-> NotAUuid, email |-> <<>>, exp |-> 0, iat |-> 0]
NoToken == [kind |-> "none", alg |-> "", signed_with |-> "", claims |-> NoClaims]

\* jsonwebtoken::encode: the compact token, as what a decoder can tell of it
encode(alg, claims, secret) ==
    [kind |-> "jwt", alg |-> alg, signed_with |-> secret, claims |-> claims]

\* the parts header values and token strings are made of
Bearer == [NoToken EXCEPT !.kind = "Bearer "]
Basic == [NoToken EXCEPT !.kind = "Basic "]
Text == [NoToken EXCEPT !.kind = "invalid.jwt.token"]

\* jsonwebtoken::decode::<Claims> with Validation::default(): one well-formed
\* HS256 token, signed with the key, whose exp has not passed
decode(token, secret, now) ==
    IF /\ Len(token) = 1
       /\ token[1].kind = "jwt"
       /\ token[1].alg = "HS256"
       /\ token[1].signed_with = secret
       /\ ~(token[1].claims.exp < now)
    THEN [tag |-> "Ok", claims |-> token[1].claims]
    ELSE [tag |-> "Err", claims |-> NoClaims]

NoUserContext == [attached |-> FALSE, user_id |-> 0, email |-> <<>>]

\* validate_jwt_token
validate_jwt_token(token, secret, now) ==
    IF decode(token, secret, now).tag = "Err"
    THEN [tag |-> "Err", kind |-> "Unauthorized", ctx |-> NoUserContext]
    ELSE IF parse_str(decode(token, secret, now).claims.sub).tag = "Err"
    THEN [tag |-> "Err", kind |-> "Unauthorized", ctx |-> NoUserContext]
    ELSE [tag |-> "Ok", kind |-> "",
          ctx |-> [attached |-> TRUE,
                   user_id |-> parse_str(decode(token, secret, now).claims.sub).uuid,
                   email |-> decode(token, secret, now).claims.email]]

\* a request's Authorization header: absent, or a value that is visible
\* ASCII or not, made of parts
NoHeader == [present |-> FALSE, ascii |-> TRUE, parts |-> <<>>]
HeaderOf(parts) == [present |-> TRUE, ascii |-> TRUE, parts |-> parts]
OpaqueHeader == [present |-> TRUE, ascii |-> FALSE, parts |-> <<Bearer>>]

\* str::starts_with("Bearer ")
starts_with_Bearer(parts) == Len(parts) >= 1 /\ parts[1] = Bearer

\* str::trim_start_matches("Bearer "): every leading match is removed
RECURSIVE trim_start_matches_Bearer(_)
trim_start_matches_Bearer(parts) ==
    IF starts_with_Bearer(parts) THEN trim_start_matches_Bearer(Tail(parts))
    ELSE parts

\* the response of a route behind a middleware: the status, whether the
\* handler ran, and the UserContext in the request extensions it ran with
Rejected(kind) ==
    [status |-> into_response(kind), handler |-> FALSE, ctx |-> NoUserContext]
Handled(ctx) == [status |-> "OK", handler |-> TRUE, ctx |-> ctx]

\* auth_middleware
auth_middleware(header, now) ==
    IF ~header.present \/ ~header.ascii THEN Rejected("Unauthorized")
    ELSE IF ~starts_with_Bearer(header.parts) THEN Rejected("Unauthorized")
    ELSE IF trim_start_matches_Bearer(header.parts) = <<>> THEN Rejected("Unauthorized")
    ELSE IF validate_jwt_token(trim_start_matches_Bearer(header.parts),
                               jwt_secret, now).tag = "Err"
    THEN Rejected("Unauthorized")
    ELSE Handled(validate_jwt_token(trim_start_matches_Bearer(header.parts),
                                    jwt_secret, now).ctx)

\* optional_auth_middleware
optional_auth_middleware(header, now) ==
    IF /\ header.present /\ header.ascii
       /\ starts_with_Bearer(header.parts)
       /\ trim_start_matches_Bearer(header.parts) # <<>>
       /\ validate_jwt_token(trim_start_matches_Bearer(header.parts),
                             jwt_secret, now).tag = "Ok"
    THEN Handled(validate_jwt_token(trim_start_matches_Bearer(header.parts),
                                    jwt_secret, now).ctx)
    ELSE Handled(NoUserContext)

NoAuthResponse == [access_token |-> NoToken, refresh_token |-> NoToken, expires_in |-> 0]

\* AuthService::generate_auth_response
generate_auth_response(user_id, email, now) ==
    [access_token |->
        encode("HS256", [sub |-> user_id, email |-> email,
                         exp |-> now + jwt_expiration, iat |-> now], jwt_secret),
     refresh_token |->
        encode("HS256", [sub |-> user_id, email |-> email,
                         exp |-> now + refresh_token_expiration, iat |-> now], jwt_secret),
     expires_in |-> jwt_expiration]

\* AuthService::hash_token: the hex SHA-256 of the token, a value that only
\* the same token gives
hash_token(token) == [sha256_hex_of |-> token]

\* AuthService::hash_password and verify_password (Argon2)
hash_password(password) == [argon2_of |-> password]
verify_password(password, password_hash) == password_hash.argon2_of = password

validate_email(email) == (\E i \in 1..Len(email) : email[i] = "@") /\ Len(email) >= 3
validate_password(password) == Len(password) >= 8

\* UserQueries::find_by_email, find_by_id
find_by_email(email) == {u \in users : u.email = email}
find_by_id(id) == {u \in users : u.id = id}

\* UserSessionQueries::find_by_token_hash
find_by_token_hash(hash, now) ==
    {x \in sessions : x.refresh_token_hash = hash /\ x.expires_at > now}

NoResp ==
    [op |-> "none", tag |-> "none", kind |-> "", auth |-> NoAuthResponse,
     header |-> NoHeader, out |-> Handled(NoUserContext), at |-> 0,
     presented |-> NoToken, issued |-> FALSE, user_id |-> 0]

AuthIdle ==
    /\ users = {}
    /\ sessions = {}
    /\ client = NoAuthResponse
    /\ clock = 0
    /\ resp = NoResp

\* the outcome of an auth service call that failed with Error kind
AuthErr(op, kind) == [NoResp EXCEPT !.op = op, !.tag = "Err", !.kind = kind, !.at = clock]
\* the outcome of one that returned auth
AuthOk(op, auth, id) ==
    [NoResp EXCEPT !.op = op, !.tag = "Ok", !.auth = auth, !.at = clock, !.user_id = id]

\* AuthService::register
Register(email, password) ==
    /\ IF ~validate_email(email) \/ ~validate_password(password)
       THEN resp' = AuthErr("register", "Validation") /\ UNCHANGED <<users, client>>
       ELSE IF find_by_email(email) # {}
       THEN resp' = AuthErr("register", "BadRequest") /\ UNCHANGED <<users, client>>
       ELSE \E id \in {Cardinality(users) + 1} :
              /\ users' = users \cup {[id |-> id, email |-> email,
                                       password_hash |-> hash_password(password),
                                       is_active |-> TRUE, last_login |-> 0]}
              /\ client' = generate_auth_response(uuid_to_string(id), email, clock)
              /\ resp' = AuthOk("register", client', id)
    /\ UNCHANGED <<sessions, clock, dvars, lvars, cvars>>

\* AuthService::login
Login(email, password) ==
    /\ IF find_by_email(email) = {}
       THEN resp' = AuthErr("login", "AuthenticationFailed") /\ UNCHANGED <<users, client>>
       ELSE \E user \in find_by_email(email) :
              IF ~user.is_active \/ ~verify_password(password, user.password_hash)
              THEN /\ resp' = AuthErr("login", "AuthenticationFailed")
                   /\ UNCHANGED <<users, client>>
              ELSE /\ users' = (users \ {user}) \cup {[user EXCEPT !.last_login = clock]}
                   /\ client' = generate_auth_response(uuid_to_string(user.id), email, clock)
                   /\ resp' = AuthOk("login", client', user.id)
    /\ UNCHANGED <<sessions, clock, dvars, lvars, cvars>>

\* AuthService::refresh_token, presented with token
RefreshToken(token) ==
    /\ IF find_by_token_hash(hash_token(token), clock) = {}
       THEN /\ resp' = [AuthErr("refresh_token", "AuthenticationFailed") EXCEPT
                           !.presented = token,
                           !.issued = (token = client.refresh_token)]
            /\ UNCHANGED <<sessions, client>>
       ELSE \E session \in find_by_token_hash(hash_token(token), clock) :
              IF find_by_id(session.user_id) = {}
              THEN /\ resp' = [AuthErr("refresh_token", "AuthenticationFailed") EXCEPT
                                  !.presented = token,
                                  !.issued = (token = client.refresh_token)]
                   /\ UNCHANGED <<sessions, client>>
              ELSE \E user \in find_by_id(session.user_id) :
                     /\ sessions' = (sessions \ {session}) \cup
                                        {[session EXCEPT !.last_used_at = clock]}
                     /\ client' = generate_auth_response(uuid_to_string(user.id),
                                                         user.email, clock)
                     /\ resp' = [AuthOk("refresh_token", client', user.id) EXCEPT
                                    !.presented = token,
                                    !.issued = (token = client.refresh_token)]
    /\ UNCHANGED <<users, clock, dvars, lvars, cvars>>

\* tokens not issued by the server to this client: signed with another
\* secret, with another algorithm, long expired, carrying a sub that is no
\* UUID, and a token for a user that is valid for the whole run
ForeignTokens ==
    {encode("HS256", [sub |-> uuid_to_string(1), email |-> EmailA, exp |-> MaxClock + 1, iat |-> 0],
            "wrong-secret"),
     encode("HS384", [sub |-> uuid_to_string(1), email |-> EmailA, exp |-> MaxClock + 1, iat |-> 0],
            jwt_secret),
     encode("HS256", [sub |-> uuid_to_string(1), email |-> EmailA, exp |-> 0, iat |-> 0],
            jwt_secret),
     encode("HS256", [sub |-> NotAUuid, email |-> EmailA, exp |-> MaxClock + 1, iat |-> 0],
            jwt_secret),
     encode("HS256", [sub |-> uuid_to_string(2), email |-> EmailB, exp |-> MaxClock + 1, iat |-> 0],
            jwt_secret)}

\* the tokens a client can present now
Presentable ==
    ForeignTokens \cup ({client.access_token, client.refresh_token} \ {NoToken})

\* the Authorization headers a client can send now
Headers ==
    {NoHeader, OpaqueHeader, HeaderOf(<<Bearer>>), HeaderOf(<<Bearer, Bearer>>),
     HeaderOf(<<Bearer, Text>>)}
    \cup {HeaderOf(<<Bearer, tk>>) : tk \in Presentable}
    \cup {HeaderOf(<<Basic, tk>>) : tk \in Presentable}
    \cup {HeaderOf(<<Bearer, Bearer, tk>>) : tk \in Presentable}
    \cup {HeaderOf(<<Bearer, tk, Text>>) : tk \in Presentable}

\* a request with this header to a route behind auth_middleware
Request_auth_middleware(header) ==
    /\ resp' = [NoResp EXCEPT !.op = "auth_middleware", !.tag = "Ok", !.header = header,
                              !.at = clock, !.out = auth_middleware(header, clock)]
    /\ UNCHANGED <<users, sessions, client, clock, dvars, lvars, cvars>>

\* a request with this header to a route behind optional_auth_middleware
Request_optional_auth_middleware(header) ==
    /\ resp' = [NoResp EXCEPT !.op = "optional_auth_middleware", !.tag = "Ok",
                              !.header = header, !.at = clock,
                              !.out = optional_auth_middleware(header, clock)]
    /\ UNCHANGED <<users, sessions, client, clock, dvars, lvars, cvars>>

\* time passes
Tick ==
    /\ clock < MaxClock
    /\ clock' = clock + 1
    /\ UNCHANGED <<users, sessions, client, resp, dvars, lvars, cvars>>

(***************************************************************************)
(* Wallets and transactions: WalletService, TransactionService and the      *)
(* queries they issue (backend/src/services, backend/src/db/queries.rs).    *)
(* An Option is <<>> for None and <<v>> for Some(v).  A row's id is its     *)
(* position in its table.                                                   *)
(***************************************************************************)
UserIds == 1..NumUsers
Tasks == 1..NumTasks
WalletIds == 1..(MaxWallets + 1)
TransactionIds == 1..(MaxTransactions + 1)

None == <<>>
Some(v) == <<v>>

\* COALESCE($n, column)
COALESCE(new, old) == IF new = None THEN old ELSE new

\* a public key string: which key it is, its length, whether it starts "0x"
SolanaKey(k) == [key |-> k, len |-> 44, hex |-> FALSE]

\* CreateWallet requests: a Solana wallet for each key, one with a blank
\* name, one whose key has the wrong length, and a watch-only wallet that
\* carries a private key
CreateWalletOf(k) ==
    [name |-> [len |-> 4, blank |-> FALSE], wallet_type |-> "Solana",
     public_key |-> SolanaKey(k), encrypted_private_key |-> None]
WalletRequests ==
    {CreateWalletOf(k) : k \in 1..NumKeys}
    \cup {[CreateWalletOf(1) EXCEPT !.name = [len |-> 2, blank |-> TRUE]],
          [CreateWalletOf(1) EXCEPT !.public_key = [key |-> 1, len |-> 43, hex |-> FALSE]],
          [CreateWalletOf(1) EXCEPT !.wallet_type = "WatchOnly",
                                    !.encrypted_private_key = Some("secret")]}

\* WalletService::validate_wallet_data
validate_wallet_data(wallet_data) ==
    /\ ~wallet_data.name.blank
    /\ wallet_data.name.len <= 255
    /\ CASE wallet_data.wallet_type = "Solana" -> wallet_data.public_key.len = 44
         [] wallet_data.wallet_type = "Ethereum" ->
                wallet_data.public_key.hex /\ wallet_data.public_key.len = 42
         [] wallet_data.wallet_type = "Bitcoin" ->
                wallet_data.public_key.len >= 26 /\ wallet_data.public_key.len <= 62
         [] OTHER -> wallet_data.encrypted_private_key = None

\* WalletQueries::find_by_public_key: the ids of the rows with this key
find_by_public_key(public_key) ==
    {i \in 1..Len(wallets) : wallets[i].public_key = public_key}

\* the row WalletQueries::create inserts
wallet_row(user_id, wallet_data) ==
    [user_id |-> user_id, name |-> wallet_data.name,
     wallet_type |-> wallet_data.wallet_type, public_key |-> wallet_data.public_key,
     is_active |-> TRUE]

\* what a service call returned: Ok with the rows it returned, or an Error
Ok(rows) == [tag |-> "Ok", kind |-> "", rows |-> rows]
Err(kind) == [tag |-> "Err", kind |-> kind, rows |-> <<>>]

\* WalletService::get_wallet
get_wallet(wallet_id, user_id) ==
    IF wallet_id \notin 1..Len(wallets) THEN Err("NotFound")
    ELSE IF wallets[wallet_id].user_id # user_id THEN Err("Forbidden")
    ELSE Ok(<<wallets[wallet_id]>>)

\* WalletQueries::deactivate
deactivate(wallet_id, user_id) ==
    [i \in 1..Len(wallets) |->
        IF i = wallet_id /\ wallets[i].user_id = user_id
        THEN [wallets[i] EXCEPT !.is_active = FALSE]
        ELSE wallets[i]]

\* CreateTransaction requests for a wallet: a transfer with and without raw
\* transaction data, and one with amount 0
CreateTransactionOf(wallet_id, raw) ==
    [wallet_id |-> wallet_id, transaction_type |-> "Send",
     from_address |-> [blank |-> FALSE], to_address |-> [blank |-> FALSE],
     amount |-> [parses |-> TRUE, milli |-> 1500], token_mint |-> None,
     raw_transaction |-> raw]
TransactionRequests(wallet_id) ==
    {CreateTransactionOf(wallet_id, raw) : raw \in {None, Some("raw")}}
    \cup {[CreateTransactionOf(wallet_id, None) EXCEPT
              !.amount = [parses |-> TRUE, milli |-> 0]]}

\* TransactionService::validate_transaction_data
validate_transaction_data(transaction_data) ==
    /\ ~transaction_data.from_address.blank
    /\ ~transaction_data.to_address.blank
    /\ transaction_data.amount.parses
    /\ transaction_data.amount.milli > 0
    /\ CASE transaction_data.transaction_type = "Swap" ->
                transaction_data.token_mint # None
         [] transaction_data.transaction_type \in {"Stake", "Unstake"} ->
                transaction_data.amount.milli >= 1
         [] transaction_data.transaction_type = "ContractInteraction" ->
                transaction_data.raw_transaction # None
         [] OTHER -> TRUE

\* the row TransactionQueries::create inserts
transaction_row(transaction_data) ==
    [wallet_id |-> transaction_data.wallet_id, status |-> "Pending",
     transaction_hash |-> None, block_number |-> None, fee |-> None,
     error_message |-> None, raw_transaction |-> transaction_data.raw_transaction,
     confirmed_at |-> None]

TransactionStatus == {"Pending", "Confirmed", "Failed", "Cancelled"}

\* variant: confirmed_at is written at every confirmation
update_status_restamping(rows, transaction_id, status, transaction_hash, block_number, fee, error_message, now) ==
    [i \in 1..Len(rows) |->
        IF i # transaction_id THEN rows[i]
        ELSE [rows[i] EXCEPT
                !.status = status,
                !.transaction_hash = COALESCE(transaction_hash, @),
                !.block_number = COALESCE(block_number, @),
                !.fee = COALESCE(fee, @),
                !.error_message = COALESCE(error_message, @),
                !.confirmed_at = IF status = "Confirmed" THEN Some(now) ELSE @]]

\* TransactionQueries::update_status: the table after its UPDATE statements
update_status(rows, transaction_id, status, transaction_hash, block_number, fee, error_message, now) ==
    [i \in 1..Len(rows) |->
        IF i # transaction_id THEN rows[i]
        ELSE [rows[i] EXCEPT
                !.status = status,
                !.transaction_hash = COALESCE(transaction_hash, @),
                !.block_number = COALESCE(block_number, @),
                !.fee = COALESCE(fee, @),
                !.error_message = COALESCE(error_message, @),
                !.confirmed_at = IF status = "Confirmed" /\ @ = None
                                 THEN Some(now) ELSE @]]

\* TransactionQueries::update_status: what its final SELECT ... fetch_one gives
updated_row(rows, transaction_id) ==
    IF transaction_id \in 1..Len(rows) THEN Ok(<<rows[transaction_id]>>)
    ELSE Err("Database")

NoWalletData == [CreateWalletOf(1) EXCEPT !.wallet_type = "none"]
NoArgs ==
    [status |-> "none", transaction_hash |-> None, block_number |-> None,
     fee |-> None, error_message |-> None]

\* a request task: idle, holding what its last call was and returned, or
\* between the two queries of create_wallet
IdleTask ==
    [pc |-> "idle", op |-> "none", user_id |-> 0, wallet_id |-> 0, transaction_id |-> 0,
     wallet_data |-> NoWalletData, tag |-> "none", kind |-> "", rows |-> <<>>,
     stored |-> FALSE, args |-> NoArgs]

DbIdle ==
    /\ wallets = <<>>
    /\ transactions = <<>>
    /\ task = [t \in Tasks |-> IdleTask]

\* task t finished op for user_id on the named rows with result r
Done(t, op, user_id, wallet_id, transaction_id, r) ==
    [task EXCEPT ![t] =
        [IdleTask EXCEPT !.op = op, !.user_id = user_id, !.wallet_id = wallet_id,
                         !.transaction_id = transaction_id,
                         !.tag = r.tag, !.kind = r.kind, !.rows = r.rows]]

\* WalletService::create_wallet up to its INSERT: validation and the
\* find_by_public_key check
create_wallet_find(t, user_id, wallet_data) ==
    /\ task[t].pc = "idle"
    /\ IF ~validate_wallet_data(wallet_data)
       THEN task' = Done(t, "create_wallet", user_id, 0, 0, Err("Validation"))
       ELSE IF find_by_public_key(wallet_data.public_key) # {}
       THEN task' = [Done(t, "create_wallet", user_id, 0, 0, Err("BadRequest"))
                        EXCEPT ![t].stored = TRUE,
                               ![t].wallet_data = wallet_data]
       ELSE task' = [task EXCEPT ![t] =
                        [IdleTask EXCEPT !.pc = "insert", !.op = "create_wallet",
                                         !.user_id = user_id,
                                         !.wallet_data = wallet_data]]
    /\ UNCHANGED <<wallets, transactions, avars, lvars, cvars>>

\* WalletService::create_wallet from WalletQueries::create on.  The table is
\* created by migrations that are not part of the sources: with a unique
\* index on public_key an INSERT of a stored key fails, without one it adds
\* a second row
create_wallet_insert(t, unique_index) ==
    /\ task[t].pc = "insert"
    /\ Len(wallets) < MaxWallets
    /\ IF unique_index /\ find_by_public_key(task[t].wallet_data.public_key) # {}
       THEN /\ task' = [Done(t, "create_wallet", task[t].user_id, 0, 0, Err("Database"))
                           EXCEPT ![t].stored = TRUE,
                                  ![t].wallet_data = task[t].wallet_data]
            /\ UNCHANGED wallets
       ELSE /\ wallets' = Append(wallets, wallet_row(task[t].user_id, task[t].wallet_data))
            /\ task' = [Done(t, "create_wallet", task[t].user_id, Len(wallets) + 1, 0,
                             Ok(<<wallet_row(task[t].user_id, task[t].wallet_data)>>))
                           EXCEPT ![t].stored =
                                      (find_by_public_key(task[t].wallet_data.public_key) # {}),
                                  ![t].wallet_data = task[t].wallet_data]
    /\ UNCHANGED <<transactions, avars, lvars, cvars>>

\* GET /wallet/:wallet_id
Do_get_wallet(t, wallet_id, user_id) ==
    /\ task[t].pc = "idle"
    /\ task' = Done(t, "get_wallet", user_id, wallet_id, 0, get_wallet(wallet_id, user_id))
    /\ UNCHANGED <<wallets, transactions, avars, lvars, cvars>>

\* DELETE /wallet/:wallet_id, WalletService::deactivate_wallet
Do_deactivate_wallet(t, wallet_id, user_id) ==
    /\ task[t].pc = "idle"
    /\ IF get_wallet(wallet_id, user_id).tag = "Err"
       THEN /\ task' = Done(t, "deactivate_wallet", user_id, wallet_id, 0,
                            get_wallet(wallet_id, user_id))
            /\ UNCHANGED wallets
       ELSE /\ wallets' = deactivate(wallet_id, user_id)
            /\ task' = Done(t, "deactivate_wallet", user_id, wallet_id, 0, Ok(<<>>))
    /\ UNCHANGED <<transactions, avars, lvars, cvars>>

\* POST /transaction, TransactionService::create_transaction
Do_create_transaction(t, user_id, transaction_data) ==
    /\ task[t].pc = "idle"
    /\ Len(transactions) < MaxTransactions
    /\ IF get_wallet(transaction_data.wallet_id, user_id).tag = "Err"
       THEN /\ task' = Done(t, "create_transaction", user_id, transaction_data.wallet_id, 0,
                            get_wallet(transaction_data.wallet_id, user_id))
            /\ UNCHANGED transactions
       ELSE IF ~validate_transaction_data(transaction_data)
       THEN /\ task' = Done(t, "create_transaction", user_id, transaction_data.wallet_id, 0,
                            Err("Validation"))
            /\ UNCHANGED transactions
       ELSE /\ transactions' = Append(transactions, transaction_row(transaction_data))
            /\ task' = Done(t, "create_transaction", user_id, transaction_data.wallet_id,
                            Len(transactions) + 1,
                            Ok(<<transaction_row(transaction_data)>>))
    /\ UNCHANGED <<wallets, avars, lvars, cvars>>

\* TransactionQueries::find_by_wallet_id
find_by_wallet_id(wallet_id) ==
    SelectSeq(transactions, LAMBDA row : row.wallet_id = wallet_id)

\* GET /transaction?wallet_id=, TransactionService::get_wallet_transactions
Do_get_wallet_transactions(t, wallet_id, user_id) ==
    /\ task[t].pc = "idle"
    /\ task' = Done(t, "get_wallet_transactions", user_id, wallet_id, 0,
                    IF get_wallet(wallet_id, user_id).tag = "Err"
                    THEN get_wallet(wallet_id, user_id)
                    ELSE Ok(find_by_wallet_id(wallet_id)))
    /\ UNCHANGED <<wallets, transactions, avars, lvars, cvars>>

\* TransactionService::get_transaction
get_transaction(transaction_id, user_id) ==
    IF transaction_id \notin 1..Len(transactions) THEN Err("NotFound")
    ELSE IF get_wallet(transactions[transaction_id].wallet_id, user_id).tag = "Err"
    THEN get_wallet(transactions[transaction_id].wallet_id, user_id)
    ELSE Ok(<<transactions[transaction_id]>>)

\* GET /transaction/:transaction_id
Do_get_transaction(t, transaction_id, user_id) ==
    /\ task[t].pc = "idle"
    /\ task' = Done(t, "get_transaction", user_id, 0, transaction_id,
                    get_transaction(transaction_id, user_id))
    /\ UNCHANGED <<wallets, transactions, avars, lvars, cvars>>

\* what the Solana client answers: a signature and a slot, or nothing
Signatures == {"5igA"}
Slots == {7}
ChainResults == {Some([signature |-> g, slot |-> n]) : g \in Signatures, n \in Slots}
                    \cup {None}

\* POST /transaction/:transaction_id/submit for the authenticated user_id,
\* TransactionService::submit_transaction; result is the answer of
\* SolanaClient::submit_transaction, None when it fails
Do_submit_transaction(t, transaction_id, user_id, result) ==
    /\ task[t].pc = "idle"
    /\ IF transaction_id \notin 1..Len(transactions)
       THEN /\ task' = Done(t, "submit_transaction", user_id, 0, transaction_id,
                            Err("NotFound"))
            /\ UNCHANGED transactions
       ELSE IF transactions[transaction_id].raw_transaction = None
       THEN /\ task' = Done(t, "submit_transaction", user_id, 0, transaction_id,
                            Err("BadRequest"))
            /\ UNCHANGED transactions
       ELSE IF result = None
       THEN /\ task' = Done(t, "submit_transaction", user_id, 0, transaction_id,
                            Err("TransactionFailed"))
            /\ UNCHANGED transactions
       ELSE /\ transactions' =
                  update_status(transactions, transaction_id, "Pending",
                                Some(result[1].signature), Some(result[1].slot),
                                None, None, clock)
            /\ task' = [Done(t, "submit_transaction", user_id, 0, transaction_id,
                             Ok(<<result[1].signature>>))
                           EXCEPT ![t].args =
                               [status |-> "Pending",
                                transaction_hash |-> Some(result[1].signature),
                                block_number |-> Some(result[1].slot),
                                fee |-> None, error_message |-> None]]
    /\ UNCHANGED <<wallets, avars, lvars, cvars>>

\* TransactionService::monitor_transaction; result is the answer of
\* SolanaClient::get_transaction_status
Do_monitor_transaction(t, transaction_id, result) ==
    /\ task[t].pc = "idle"
    /\ IF transaction_id \notin 1..Len(transactions)
       THEN /\ task' = Done(t, "monitor_transaction", 0, 0, transaction_id, Err("NotFound"))
            /\ UNCHANGED transactions
       ELSE IF transactions[transaction_id].transaction_hash = None \/ result = None
       THEN /\ task' = Done(t, "monitor_transaction", 0, 0, transaction_id,
                            Ok(<<transactions[transaction_id]>>))
            /\ UNCHANGED transactions
       ELSE /\ transactions' =
                  update_status(transactions, transaction_id, "Confirmed",
                                Some(result[1].signature), Some(result[1].slot),
                                None, None, clock)
            /\ task' = [Done(t, "monitor_transaction", 0, 0, transaction_id,
                             updated_row(transactions', transaction_id))
                           EXCEPT ![t].args =
                               [status |-> "Confirmed",
                                transaction_hash |-> Some(result[1].signature),
                                block_number |-> Some(result[1].slot),
                                fee |-> None, error_message |-> None]]
    /\ UNCHANGED <<wallets, avars, lvars, cvars>>

\* the arguments update_transaction_status is called with: a block number
\* comes with a hash, a fee with Confirmed, an error message with Failed
StatusArgs ==
    {args \in [status : TransactionStatus,
               transaction_hash : {None} \cup {Some(g) : g \in Signatures},
               block_number : {None} \cup {Some(n) : n \in Slots},
               fee : {None, Some("0.000005")},
               error_message : {None, Some("failed on chain")}] :
        /\ args.block_number # None => args.transaction_hash # None
        /\ args.fee # None => args.status = "Confirmed"
        /\ args.error_message # None => args.status = "Failed"}

\* TransactionService::update_transaction_status
Do_update_transaction_status(t, transaction_id, args) ==
    /\ task[t].pc = "idle"
    /\ transactions' =
          update_status(transactions, transaction_id, args.status, args.transaction_hash,
                        args.block_number, args.fee, args.error_message, clock)
    /\ task' = [Done(t, "update_transaction_status", 0, 0, transaction_id,
                     updated_row(transactions', transaction_id))
                   EXCEPT ![t].args = args]
    /\ UNCHANGED <<wallets, avars, lvars, cvars>>

HostIdle == AuthIdle /\ DbIdle

Caller == CHOOSE t \in Threads : \A u \in Threads : t <= u

Init == LibStart /\ CircuitIdle /\ HostIdle

Next ==
    \/ \E d \in Data : Call_generate_proof_with_proof(Caller, d)
    \/ \E d \in Data : Call_generate_proof_slice(Caller, d)
    \/ \E d \in Data \cup {Oversized} : Call_generate_sha256_proof(Caller, d)
    \/ \E var \in VerifyVariants, d \in Data : Call_verify_proof_with_proof(Caller, var, d)
    \/ CallOnce(Caller)
    \/ \E ok \in BOOLEAN : RunClosure(Caller, ok)
    \/ \E blind \in 1..NumBlinds : Return_generate_proof_with_proof(Caller, blind)
    \/ Return_verify_proof_with_proof(Caller)
    \/ \E blind \in 1..NumBlinds : Return_generate_proof_slice(Caller, blind)
    \/ \E blind \in 1..NumBlinds, now \in 1..NumTimes :
          Return_generate_sha256_proof(Caller, blind, now)
    \/ \E d \in Data : Do_verify_proof_slice(Caller, d)
    \/ \E d \in Data : Do_verify_sha256_proof(Caller, d)
    \/ \E d0, d \in Data : Do_verify_sha256_proof_request(Caller, d0, d)
    \/ \E ptrs \in BOOLEAN \X BOOLEAN \X BOOLEAN, d \in Data :
          Call_generate_proof(Caller, ptrs, d)
    \/ \E blind \in 1..NumBlinds : Return_generate_proof(Caller, blind)
    \/ \E ptrs \in BOOLEAN \X BOOLEAN \X BOOLEAN, d \in Data :
          Do_verify_proof_ffi(Caller, ptrs, d)
    \/ Do_json_round_trip(Caller)
    \/ \E data \in RequestData, circuit_type \in CircuitTypes :
          Handle_generate_proof(Caller, data, circuit_type)
    \/ Call_health_check(Caller)
    \/ Call_get_status(Caller)
    \/ \E blind \in 1..NumBlinds : Return_health_check(Caller, blind)
    \/ \E blind \in 1..NumBlinds, now \in 1..NumTimes : Return_get_status(Caller, blind, now)

Spec == Init /\ [][Next]_vars

\* several threads making their calls into the library concurrently
NextConc ==
    \/ \E t \in Threads, d \in ConcData : Call_generate_proof_with_proof(t, d)
    \/ \E t \in Threads, var \in {"same", "empty"}, d \in ConcData :
          Call_verify_proof_with_proof(t, var, d)
    \/ \E t \in Threads : CallOnce(t)
    \/ \E t \in Threads, ok \in BOOLEAN : RunClosure(t, ok)
    \/ \E t \in Threads, blind \in 1..NumBlinds : Return_generate_proof_with_proof(t, blind)
    \/ \E t \in Threads : Return_verify_proof_with_proof(t)
    \/ \E t \in Threads : Call_health_check(t)
    \/ \E t \in Threads : Call_get_status(t)
    \/ \E t \in Threads, blind \in 1..NumBlinds : Return_health_check(t, blind)
    \/ \E t \in Threads, blind \in 1..NumBlinds, now \in 1..NumTimes :
          Return_get_status(t, blind, now)

SpecConc == Init /\ [][NextConc]_vars

\* a preimage is drawn, padded and synthesized
InitCircuit ==
    /\ c_pc = "input"
    /\ c_data \in Preimages
    /\ c_words = <<>>
    /\ c_synth = NoSynth
    /\ LibStart
    /\ HostIdle

NextCircuit == Pad \/ Synthesize

SpecCircuit == InitCircuit /\ [][NextCircuit]_vars

\* clients of the auth service and of routes behind the two middlewares
NextAuth ==
    \/ \E email \in Emails, password \in Passwords : Register(email, password)
    \/ \E email \in Emails, password \in Passwords : Login(email, password)
    \/ \E token \in Presentable \cup {Text} : RefreshToken(token)
    \/ \E header \in Headers : Request_auth_middleware(header)
    \/ \E header \in Headers : Request_optional_auth_middleware(header)
    \/ Tick

SpecAuth == Init /\ [][NextAuth]_vars

\* the task of a client that makes one request after the other
Requester == CHOOSE t \in Tasks : \A u \in Tasks : t <= u

\* request tasks of the wallet routes running concurrently
NextWallet ==
    \/ \E t \in Tasks, user_id \in UserIds, wallet_data \in WalletRequests :
          create_wallet_find(t, user_id, wallet_data)
    \/ \E t \in Tasks, unique_index \in BOOLEAN : create_wallet_insert(t, unique_index)
    \/ \E t \in Tasks, wallet_id \in WalletIds, user_id \in UserIds :
          Do_get_wallet(t, wallet_id, user_id)
    \/ \E t \in Tasks, wallet_id \in WalletIds, user_id \in UserIds :
          Do_deactivate_wallet(t, wallet_id, user_id)

SpecWallet == Init /\ [][NextWallet]_vars

\* the protected wallet and transaction routes, one request at a time
NextRoutes ==
    \/ \E user_id \in UserIds, k \in 1..NumKeys :
          create_wallet_find(Requester, user_id, CreateWalletOf(k))
    \/ \E unique_index \in BOOLEAN : create_wallet_insert(Requester, unique_index)
    \/ \E wallet_id \in WalletIds, user_id \in UserIds :
          Do_get_wallet(Requester, wallet_id, user_id)
    \/ \E wallet_id \in WalletIds, user_id \in UserIds :
          Do_deactivate_wallet(Requester, wallet_id, user_id)
    \/ \E wallet_id \in WalletIds, user_id \in UserIds :
          \E transaction_data \in TransactionRequests(wallet_id) :
             Do_create_transaction(Requester, user_id, transaction_data)
    \/ \E wallet_id \in WalletIds, user_id \in UserIds :
          Do_get_wallet_transactions(Requester, wallet_id, user_id)
    \/ \E transaction_id \in TransactionIds, user_id \in UserIds :
          Do_get_transaction(Requester, transaction_id, user_id)
    \/ \E transaction_id \in TransactionIds, user_id \in UserIds, result \in ChainResults :
          Do_submit_transaction(Requester, transaction_id, user_id, result)

SpecRoutes == Init /\ [][NextRoutes]_vars

\* one user's transactions followed through submission, monitoring and
\* status updates as time passes
NextStatus ==
    \/ \E user_id \in {1} : create_wallet_find(Requester, user_id, CreateWalletOf(1))
    \/ \E unique_index \in BOOLEAN : create_wallet_insert(Requester, unique_index)
    \/ \E transaction_data \in TransactionRequests(1) :
          Do_create_transaction(Requester, 1, transaction_data)
    \/ \E transaction_id \in TransactionIds, result \in ChainResults :
          Do_submit_transaction(Requester, transaction_id, 1, result)
    \/ \E transaction_id \in TransactionIds, result \in ChainResults :
          Do_monitor_transaction(Requester, transaction_id, result)
    \/ \E transaction_id \in TransactionIds, args \in StatusArgs :
          Do_update_transaction_status(Requester, transaction_id, args)
    \/ Tick

SpecStatus == Init /\ [][NextStatus]_vars

(***************************************************************************)
(* Properties of the padding and of the circuit.                           *)
(***************************************************************************)
\* C8: for every preimage length L the padding returns exactly 16*B words,
\* B = floor((L+8)/64) + 1 >= 1, no byte of the padded string is dropped by
\* the word conversion, and the padded length is a positive multiple of 64.
C8_PaddingBlockAligned ==
    c_pc # "input" =>
        LET L == Len(c_data)
            B == ((L + 8) \div 64) + 1
        IN  /\ B >= 1
            /\ Len(c_words) = 16 * B
            /\ 4 * Len(c_words) = Len(padded_bytes(c_data))
            /\ (4 * Len(c_words)) % 64 = 0
            /\ 4 * Len(c_words) > 0

\* C8 witness: the padding has run on 0, 55, 56 or 64 bytes and gave one
\* block for the first two lengths and two blocks for the last two.
C8_Witness ==
    /\ c_pc = "padded"
    /\ Len(c_data) \in {0, 55, 56, 64}
    /\ Len(c_words) = (IF Len(c_data) <= 55 THEN 16 ELSE 32)

\* C9: the padded words are the big-endian words of: the preimage unchanged,
\* one 0x80 byte, the smallest number of 0x00 bytes that brings the length to
\* 56 mod 64, the 8-byte big-endian bit length.
C9_PaddingMatchesReference ==
    c_pc # "input" => c_words = RefWords(c_data)

\* C9 witness: a 64-byte preimage was padded; the word after the preimage
\* is 0x80000000 and the last word holds the bit length 512.
C9_Witness ==
    /\ c_pc = "padded"
    /\ Len(c_data) = 64
    /\ Len(c_words) = 32
    /\ c_words[17] = <<32768, 0>>
    /\ c_words[32] = <<0, 512>>

\* C10: synthesize calls update once per padded block, in order; the first
\* call starts from the fixed initial state, each later call starts from the
\* state the previous call returned, and the cells it exposes are words of
\* the state returned by the last call.
C10_BlockChaining ==
    c_pc = "synthesized" =>
        LET calls == c_synth.calls
            n == Len(c_words) \div 16
        IN  /\ Len(calls) = n
            /\ n >= 1
            /\ calls[1].state_in = H0
            /\ \A i \in 1..n :
                  /\ calls[i].block_idx = i - 1
                  /\ calls[i].block = SubSeq(c_words, 16 * i - 15, 16 * i)
            /\ \A i \in 1..(n - 1) : calls[i + 1].state_in = calls[i].state_out
            /\ c_synth.state = calls[n].state_out
            /\ \A c \in c_synth.instance : c[1] \in 0..7

\* C10 witness: a three-block preimage was synthesized and the state moved
\* at every block.
C10_Witness ==
    /\ c_pc = "synthesized"
    /\ Len(c_synth.calls) = 3
    /\ c_synth.calls[2].state_in # H0
    /\ c_synth.calls[3].state_in # c_synth.calls[2].state_in
    /\ c_synth.instance # {}

(***************************************************************************)
(* Properties of the one-time setup.                                       *)
(***************************************************************************)
Finished(t) == th[t].pc = "idle" /\ th[t].ret # "none"

\* C1: however the first calls of several threads interleave,
\* load_or_generate is executed at most once, exactly once as soon as any
\* caller is past call_once, and every caller that finished read the
\* proving system that this one run left.
C1_SetupRunsOnce ==
    /\ setup_runs <= 1
    /\ \A t \in Threads :
          (th[t].pc = "read" \/ Finished(t)) => setup_runs = 1
    /\ \A t \in Threads : Finished(t) => th[t].saw = PROVING_SYSTEM

\* C1 witness: two threads entered generate_proof_with_proof while the Once
\* was still incomplete, both have returned, and setup ran once.
C1_Witness ==
    \E t1, t2 \in Threads :
        /\ t1 # t2
        /\ th[t1].op = "generate_proof_with_proof" /\ th[t1].arrived = "INCOMPLETE"
        /\ th[t2].op = "generate_proof_with_proof" /\ th[t2].arrived = "INCOMPLETE"
        /\ Finished(t1) /\ Finished(t2)
        /\ setup_runs = 1

\* C2: a caller is at its read of PROVING_SYSTEM, or beyond it, only when
\* the setup run has completed; a caller that arrived while the closure was
\* running stays at call_once for as long as it runs.
C2_NoReadBeforeSetup ==
    \A t \in Threads :
        /\ (th[t].pc = "read" \/ Finished(t)) =>
              (INIT_LOCK = "COMPLETE" /\ setup_runs >= 1)
        /\ (th[t].pc # "idle" /\ th[t].arrived = "RUNNING" /\ INIT_LOCK = "RUNNING") =>
              th[t].pc = "call_once"

\* C2 witness: a caller that arrived while setup was in progress has
\* returned from its call.
C2_Witness ==
    \E t \in Threads :
        /\ th[t].arrived = "RUNNING"
        /\ Finished(t)
        /\ th[t].op \in {"generate_proof_with_proof", "verify_proof_with_proof"}

(***************************************************************************)
(* Properties of proving and verifying.                                    *)
(***************************************************************************)
\* C3: whenever generate_proof_with_proof(d) returned (hash, proof_bytes),
\* hash is SHA-256(d) and verify_proof_with_proof(hash, proof_bytes)
\* returns Ok(true).
C3_RoundTrip ==
    \A t \in Threads :
        /\ held[t].kind = "pair" => held[t].hash = Sha256(held[t].of)
        /\ (Finished(t) /\ th[t].op = "verify_proof_with_proof" /\ th[t].var = "same") =>
              (th[t].ret = "Ok" /\ th[t].bool)

\* C4: verifying the proof made for d1 against the digest of a d2 with a
\* different digest returns Ok(false), through verify_proof_with_proof and
\* through ZkmlService::verify_sha256_proof.
C4_MismatchedDigestRejected ==
    \A t \in Threads :
        /\ (Finished(t) /\ th[t].op = "verify_proof_with_proof"
               /\ th[t].var = "other_digest") =>
              (th[t].ret = "Ok" /\ ~th[t].bool)
        /\ (Finished(t) /\ th[t].op = "verify_sha256_proof"
               /\ sha2_digest(th[t].of) # sha2_digest(th[t].data)) =>
              (th[t].ret = "Ok" /\ ~th[t].bool)

\* C4 witness: the service verified the proof generated for one preimage
\* against another preimage and answered Ok(false).
C4_Witness ==
    \E t \in Threads :
        /\ Finished(t)
        /\ th[t].op = "verify_sha256_proof"
        /\ th[t].of # th[t].data
        /\ th[t].zk.hash = sha2_digest(th[t].of)
        /\ th[t].ret = "Ok" /\ ~th[t].bool

BadProofVariants == {"other_digest", "truncated", "corrupt", "empty"}

\* C5 as stated: verify_proof_with_proof returns Ok(false), never an Err,
\* for every proof that is malformed, truncated, empty or made for another
\* digest.
C5_VerifierNeverErrs ==
    \A t \in Threads :
        (Finished(t) /\ th[t].op = "verify_proof_with_proof"
            /\ th[t].var \in BadProofVariants) =>
           (th[t].ret = "Ok" /\ ~th[t].bool)

\* C5 as amended: for every such proof verify_proof_with_proof returns
\* Ok(false) when the proving system is initialised, and the error
\* "Proving system not initialized" when setup failed; it never accepts.
C5_VerifierRejects ==
    \A t \in Threads :
        (Finished(t) /\ th[t].op = "verify_proof_with_proof"
            /\ th[t].var \in BadProofVariants) =>
           IF PROVING_SYSTEM.some
           THEN th[t].ret = "Ok" /\ ~th[t].bool
           ELSE th[t].ret = "Err" /\ th[t].err = "Proving system not initialized"
                /\ ~th[t].bool

\* C5 witness: a truncated transcript was verified against an initialised
\* proving system and rejected with Ok(false).
C5_Witness ==
    \E t \in Threads :
        /\ Finished(t)
        /\ th[t].op = "verify_proof_with_proof"
        /\ th[t].var = "truncated"
        /\ PROVING_SYSTEM.some
        /\ th[t].ret = "Ok" /\ ~th[t].bool

\* C6: ZkmlService::verify_sha256_proof answers true iff the proof bytes of
\* the ZkProof verify against the verifying key for the recorded digest; in
\* particular a ZkProof with empty proof bytes is rejected.
C6_ServiceChecksProofBytes ==
    \A t \in Threads :
        (Finished(t) /\ th[t].op = "verify_sha256_proof") =>
           /\ th[t].bool =
                 plonk_verify_proof(PROVING_SYSTEM, public_inputs(th[t].zk.hash),
                                    th[t].zk.proof_data)
           /\ th[t].zk.proof_data.kind = "empty" => ~th[t].bool

\* C7 as stated: generate_proof_slice(d) returns len = |d| and
\* hash = SHA-256(d) for every d, and verify_proof_slice(d, that Output)
\* is true.
C7_SliceRoundTrip ==
    \A t \in Threads :
        /\ (Finished(t) /\ th[t].op = "generate_proof_slice") =>
              /\ held[t].kind = "output"
              /\ held[t].len = Len(th[t].data)
              /\ held[t].hash = Sha256(th[t].data)
        /\ (Finished(t) /\ th[t].op = "verify_proof_slice" /\ th[t].var = "same") =>
              th[t].bool

\* C7 as amended: with the proving system initialised generate_proof_slice(d)
\* returns len = |d| and hash = SHA-256(d) and verify_proof_slice(d, that
\* Output) is true; after a failed setup it returns len 0 and the all-zero
\* hash, and verify_proof_slice(d, that Output) is false.
C7_SliceRoundTripWhenReady ==
    \A t \in Threads :
        /\ (Finished(t) /\ th[t].op = "generate_proof_slice") =>
              /\ held[t].kind = "output"
              /\ held[t].of = th[t].data
              /\ IF PROVING_SYSTEM.some
                 THEN held[t].len = Len(th[t].data) /\ held[t].hash = Sha256(th[t].data)
                 ELSE held[t].len = 0 /\ held[t].hash = ZeroHash
        /\ (Finished(t) /\ th[t].op = "verify_proof_slice" /\ th[t].var = "same") =>
              th[t].bool = PROVING_SYSTEM.some

\* C7 witness: the Output generated for the 128-byte preimage was verified
\* against that preimage and accepted.
C7_Witness ==
    \E t \in Threads :
        /\ Finished(t)
        /\ th[t].op = "verify_proof_slice"
        /\ th[t].var = "same"
        /\ Len(th[t].data) = 128
        /\ held[t].len = 128
        /\ th[t].bool

(***************************************************************************)
(* Properties of the public instance.                                      *)
(***************************************************************************)
\* C11: after the last block each of the 32 instance rows is constrained to
\* the corresponding byte of the final state, so the constraints hold for
\* the 32 digest bytes and fail for every instance that differs from them:
\* in one byte, or by carrying the first state word in row 0.
C11_WholeDigestConstrained ==
    c_pc = "synthesized" =>
        LET digest == StateBytes(c_synth.state)
            honest == public_inputs(digest)
            one_byte_off == {[honest EXCEPT ![j] = Fp_from_byte((digest[j] + 1) % 256)] :
                                j \in 1..32}
            word_in_row0 == [honest EXCEPT ![1] = c_synth.state[1]]
        IN  /\ {c[2] : c \in c_synth.instance} = 0..31
            /\ \A inst \in {honest, word_in_row0} \cup one_byte_off :
                  instance_constraints_hold(c_synth, inst) <=> inst = honest

\* C12: the circuit synthesized for any preimage has the shape of the
\* circuit the keys were generated from (the circuit of the empty preimage).
C12_ShapeIndependentOfPreimage ==
    c_pc = "synthesized" => circuit_shape(c_synth) = keygen_shape

(***************************************************************************)
(* Properties of the cached proving system.                                *)
(***************************************************************************)
\* C13: once a proving system is stored, no step of any prove, verify,
\* health or status call, in any interleaving, changes it or runs the
\* generation again.
C13_StoredSystemUnchanged ==
    [][PROVING_SYSTEM.some =>
          (PROVING_SYSTEM' = PROVING_SYSTEM /\ setup_runs' = setup_runs)]_vars

\* C13 witness: after the setup stored a proving system, one thread made and
\* finished a get_status call and another a verify call, and both read it.
C13_Witness ==
    \E t1, t2 \in Threads :
        /\ t1 # t2
        /\ PROVING_SYSTEM.some /\ setup_runs = 1
        /\ Finished(t1) /\ th[t1].op = "get_status" /\ th[t1].arrived = "COMPLETE"
        /\ th[t1].saw = PROVING_SYSTEM
        /\ Finished(t2) /\ th[t2].op = "verify_proof_with_proof"
        /\ th[t2].arrived = "COMPLETE" /\ th[t2].saw = PROVING_SYSTEM

\* C14: after the setup run failed the proving system stays absent and the
\* generation is not run again, and every call that needs the proving
\* system fails: generate_proof_with_proof and verify_proof_with_proof
\* return the error, generate_proof_slice the sentinel Output, the service's
\* generate an Err, and no proof is handed out or accepted.
C14_FailedSetupIsFatal ==
    /\ [](\A t \in Threads :
            (Finished(t) /\ ~PROVING_SYSTEM.some) =>
               /\ held[t].kind \notin {"pair", "zkproof"}
               /\ th[t].op \in {"generate_proof_with_proof", "verify_proof_with_proof"} =>
                     /\ th[t].ret = "Err"
                     /\ th[t].err = "Proving system not initialized"
                     /\ ~th[t].bool
               /\ th[t].op = "generate_proof_slice" =>
                     /\ held[t].kind = "output"
                     /\ held[t].len = 0 /\ held[t].hash = ZeroHash
               /\ th[t].op = "generate_sha256_proof" => th[t].ret = "Err"
               /\ th[t].op = "health_check" => ~th[t].bool
               /\ th[t].op = "get_status" => ~th[t].status.available)
    /\ [][setup_runs >= 1 =>
             (setup_runs' = setup_runs /\ PROVING_SYSTEM' = PROVING_SYSTEM)]_vars

\* C14 witness: the setup run failed, and a generate_sha256_proof call made
\* after it has returned an Err.
C14_Witness ==
    \E t \in Threads :
        /\ ~PROVING_SYSTEM.some /\ INIT_LOCK = "COMPLETE" /\ setup_runs = 1
        /\ Finished(t) /\ th[t].op = "generate_sha256_proof"
        /\ th[t].arrived = "COMPLETE"
        /\ th[t].ret = "Err"

(***************************************************************************)
(* Properties of the failures the host sees.                               *)
(***************************************************************************)
\* C15: when the proving system could not be initialised, the service's
\* generate fails with an error value (variant, message, HTTP status) that
\* differs from the one it reports when generating one request's proof fails.
C15_SetupFailureDistinct ==
    \A t \in Threads :
        (Finished(t) /\ th[t].op = "generate_sha256_proof" /\ ~th[t].saw.some) =>
           /\ th[t].ret = "Err"
           /\ \A r \in {check_output(match_output(proof_creation_failed, Oversized),
                                      Oversized, 1)} :
                 <<th[t].kind, th[t].err, into_response(th[t].kind)>>
                     # <<r.kind, r.err, into_response(r.kind)>>

\* C16: for an input larger than the circuit takes, no circuit is built and
\* the service's generate fails with an error that is not a generation
\* failure.
C16_OversizedRejectedEarly ==
    \A t \in Threads :
        (Finished(t) /\ th[t].op = "generate_sha256_proof"
            /\ Len(th[t].data) > max_input_size) =>
           /\ ~th[t].built
           /\ th[t].ret = "Err"
           /\ th[t].kind # "ProofGenerationFailed"

\* C17: whenever generate_proof_slice gave the sentinel Output (len 0, the
\* all-zero hash), ZkmlService::generate_sha256_proof returned
\* Err(ProofGenerationFailed), for empty and non-empty data alike; no ZkProof
\* it returned carries the all-zero hash.
C17_FailureNotSwallowed ==
    \A t \in Threads :
        (Finished(t) /\ th[t].op = "generate_sha256_proof") =>
           /\ (\E blind \in 1..NumBlinds :
                  generate_proof_slice(th[t].saw, th[t].data, blind)
                      = [len |-> 0, hash |-> ZeroHash]) =>
                 (th[t].ret = "Err" /\ th[t].kind = "ProofGenerationFailed")
           /\ (th[t].ret = "Ok" \/ held[t].kind = "zkproof") =>
                 (held[t].kind = "zkproof" /\ held[t].zk.hash # ZeroHash
                    /\ held[t].zk.public_inputs # ZeroHash)

\* C17 witness: the setup failed, generate_sha256_proof was called on the
\* empty input, for which len 0 is also the length of a success, and it
\* returned the error.
C17_Witness ==
    \E t \in Threads :
        /\ Finished(t) /\ th[t].op = "generate_sha256_proof"
        /\ th[t].data = <<>>
        /\ ~th[t].saw.some
        /\ th[t].ret = "Err" /\ th[t].kind = "ProofGenerationFailed"
        /\ th[t].err = "Proof generation failed for empty data"

(***************************************************************************)
(* Properties of the health check and of lazy setup.                       *)
(***************************************************************************)
\* C18: health_check returns true exactly when generating a proof for its
\* fixed input succeeds and that proof verifies.
C18_HealthIsEndToEnd ==
    \A t \in Threads :
        (Finished(t) /\ th[t].op = "health_check") =>
           /\ th[t].ret = "Ok"
           /\ \A blind \in 1..NumBlinds :
                 \A g \in {generate_proof_internal(th[t].saw, test_data, blind)} :
                    th[t].bool =
                       (g.tag = "Ok" /\ verify_proof_internal(th[t].saw, g.hash, g.proof).bool)

\* C19: a call of the service's generate or of the service's verify has
\* returned only after the setup run has happened.
C19_SetupTriggeredByEitherEntry ==
    \A t \in Threads :
        (Finished(t) /\ th[t].op \in {"generate_sha256_proof", "verify_sha256_proof"}) =>
           (setup_runs >= 1 /\ INIT_LOCK = "COMPLETE")

(***************************************************************************)
(* What the returned objects carry of the preimage.                        *)
(***************************************************************************)
\* C20: the Output or ZkProof returned for one preimage differs from the one
\* returned for any other preimage only in the digest fields, the proof
\* bytes (digest and blinding) and the timestamp.
C20_OnlyDigestDerivedFields ==
    \A t \in Threads :
        /\ (Finished(t) /\ th[t].op = "generate_proof_slice") =>
              \A d2 \in Data, blind \in 1..NumBlinds :
                 \A o2 \in {generate_proof_slice(th[t].saw, d2, blind)} :
                    [len |-> held[t].len, hash |-> o2.hash] = o2
        /\ (Finished(t) /\ th[t].op = "generate_sha256_proof" /\ th[t].ret = "Ok") =>
              \A d2 \in Data, blind \in 1..NumBlinds, now \in 1..NumTimes :
                 \A r2 \in {generate_sha256_proof(th[t].saw, d2, blind, now)} :
                    r2.tag = "Ok" =>
                       [held[t].zk EXCEPT !.hash = r2.zk.hash,
                                          !.public_inputs = r2.zk.public_inputs,
                                          !.proof_data = r2.zk.proof_data,
                                          !.created_at = r2.zk.created_at] = r2.zk

(***************************************************************************)
(* Properties of repeated verification.                                    *)
(***************************************************************************)
VerifyOps == {"verify_proof_with_proof", "verify_proof_slice", "verify_sha256_proof"}

\* a step of a verify call of thread t
VerifyStep(t) == th'[t] # th[t] /\ th'[t].op \in VerifyOps

\* C21 as stated: a verify call repeated on the same arguments returns what
\* it returned before, and no step of a verify call changes the proof the
\* caller holds, the Once, the stored proving system or the count of setup
\* runs.
C21_VerifyIdempotentNoEffect ==
    /\ [](\A t \in Threads :
            (Finished(t) /\ th[t].again) =>
               (th[t].ret = th[t].prev_ret /\ th[t].bool = th[t].prev_bool))
    /\ [][\A t \in Threads :
             VerifyStep(t) => UNCHANGED <<held, INIT_LOCK, PROVING_SYSTEM, setup_runs>>]_vars

\* C21 as amended: a repeated verify call returns what it returned before;
\* no step of a verify call changes the proof, and none changes the Once,
\* the proving system or the count of setup runs once the Once is complete:
\* only the one-time setup may run inside a verify_proof_with_proof call.
C21_VerifyIdempotentAfterSetup ==
    /\ [](\A t \in Threads :
            (Finished(t) /\ th[t].again) =>
               (th[t].ret = th[t].prev_ret /\ th[t].bool = th[t].prev_bool))
    /\ [][\A t \in Threads :
             VerifyStep(t) =>
                /\ UNCHANGED held
                /\ INIT_LOCK = "COMPLETE" => UNCHANGED <<INIT_LOCK, PROVING_SYSTEM, setup_runs>>
                /\ th'[t].op # "verify_proof_with_proof" =>
                      UNCHANGED <<INIT_LOCK, PROVING_SYSTEM, setup_runs>>]_vars

\* C21 witness: verify_proof_with_proof was called a second time on the pair
\* a generate returned and came back with the same answer.
C21_Witness ==
    \E t \in Threads :
        /\ Finished(t) /\ th[t].op = "verify_proof_with_proof"
        /\ th[t].again /\ th[t].var = "same"
        /\ held[t].kind = "pair" /\ th[t].proof = held[t].proof
        /\ th[t].ret = "Ok" /\ th[t].prev_ret = "Ok"

(***************************************************************************)
(* Properties of the FFI entry points.                                     *)
(***************************************************************************)
FfiOps == {"generate_proof", "verify_proof_ffi"}

\* C23: generate_proof and verify_proof_ffi return -1 when input_ptr or the
\* output pointer is null and -2 when input.data is null, without reading
\* the data; generate_proof returns -3 on a generation failure and 0 after
\* writing len = input.len and hash = SHA-256(data); verify_proof_ffi
\* returns 0 exactly when output.hash is SHA-256(data) and 1 otherwise; the
\* Output is written by no FFI step but the one that returns 0 from
\* generate_proof.
C23_FfiTaggedResult ==
    /\ [](\A t \in Threads :
            (Finished(t) /\ th[t].op \in FfiOps) =>
               /\ (th[t].ptrs[1] \/ th[t].ptrs[2]) => (th[t].code = -1 /\ ~th[t].read)
               /\ (~th[t].ptrs[1] /\ ~th[t].ptrs[2] /\ th[t].ptrs[3]) =>
                     (th[t].code = -2 /\ ~th[t].read)
               /\ (th[t].ptrs = <<FALSE, FALSE, FALSE>> /\ th[t].op = "generate_proof") =>
                     /\ th[t].code \in {0, -3}
                     /\ th[t].code = -3 <=> ~th[t].saw.some
                     /\ th[t].code = 0 =>
                           /\ held[t].kind = "output"
                           /\ held[t].len = Len(th[t].data)
                           /\ held[t].hash = Sha256(th[t].data)
               /\ (th[t].ptrs = <<FALSE, FALSE, FALSE>> /\ th[t].op = "verify_proof_ffi") =>
                     /\ th[t].code \in {0, 1}
                     /\ th[t].code = 0 <=> th[t].hash = Sha256(th[t].data))
    /\ [][\A t \in Threads :
             (th'[t] # th[t] /\ th'[t].op \in FfiOps) =>
                \/ UNCHANGED held
                \/ th'[t].op = "generate_proof" /\ th'[t].ret = "Code" /\ th'[t].code = 0]_vars

\* C23 witness: generate_proof failed with -3 after a failed setup while the
\* caller's Output still holds what an earlier call left in it.
C23_Witness ==
    \E t \in Threads :
        /\ Finished(t) /\ th[t].op = "generate_proof"
        /\ th[t].ptrs = <<FALSE, FALSE, FALSE>>
        /\ th[t].code = -3
        /\ held[t].kind = "output"

(***************************************************************************)
(* Properties of the ZkProof encoding.                                     *)
(***************************************************************************)
\* C22: serializing a ZkProof returned by generate_sha256_proof to JSON and
\* deserializing the result succeeds and gives a proof equal to the
\* original in proof_data, public_inputs, circuit_type, hash and created_at.
C22_JsonRoundTrip ==
    \A t \in Threads :
        (Finished(t) /\ th[t].op = "json_round_trip") =>
           /\ th[t].ret = "Ok"
           /\ th[t].back.proof_data = th[t].zk.proof_data
           /\ th[t].back.public_inputs = th[t].zk.public_inputs
           /\ th[t].back.circuit_type = th[t].zk.circuit_type
           /\ th[t].back.hash = th[t].zk.hash
           /\ th[t].back.created_at = th[t].zk.created_at

\* C22 witness: the proof generated for the 64-byte input went through JSON
\* and came back with its 32-byte digest.
C22_Witness ==
    \E t \in Threads :
        /\ Finished(t) /\ th[t].op = "json_round_trip"
        /\ Len(th[t].of) = 64
        /\ th[t].zk.hash = sha2_digest(th[t].of)
        /\ th[t].back.hash = th[t].zk.hash
        /\ th[t].zk.created_at > 0

(***************************************************************************)
(* Properties of the generate-proof handler.                               *)
(***************************************************************************)
\* C26: a generate-proof request whose data is not valid base64, or whose
\* circuit_type is present and not "sha256", ends with Error::BadRequest
\* without ZkmlService::generate_sha256_proof being called (no circuit is
\* built, the setup is not entered); a request with valid base64 and an
\* absent or "sha256" circuit_type reaches generate_sha256_proof with the
\* decoded bytes.
C26_BadRequestBeforeEngine ==
    \A t \in Threads :
        th[t].req.made =>
            IF \/ ~base64_valid(th[t].req.data)
               \/ th[t].req.circuit_type \notin {<<>>, <<"sha256">>}
            THEN /\ th[t].pc = "idle"
                 /\ th[t].op = "generate_proof_handler"
                 /\ th[t].ret = "Err" /\ th[t].kind = "BadRequest"
                 /\ ~th[t].built
                 /\ th[t].saw = NoSystem
            ELSE /\ th[t].op = "generate_sha256_proof"
                 /\ base64_encode(th[t].data) = th[t].req.data

\* C26 witness: with the setup already done, a request with decodable data
\* and an unsupported circuit type was refused.
C26_Witness ==
    \E t \in Threads :
        /\ th[t].req.made
        /\ base64_valid(th[t].req.data) /\ Len(th[t].req.data) > 0
        /\ th[t].req.circuit_type = <<"groth16">>
        /\ th[t].kind = "BadRequest"
        /\ INIT_LOCK = "COMPLETE"

(***************************************************************************)
(* Properties of the authentication layer.                                 *)
(***************************************************************************)
\* the header starts with "Bearer ", and what follows that prefix is one
\* JWT signed with the configured secret, not expired at time now, whose
\* sub parses as a UUID
BearerOfValidJwt(header, now) ==
    /\ header.present /\ header.ascii
    /\ Len(header.parts) = 2
    /\ header.parts[1] = Bearer
    /\ header.parts[2].kind = "jwt"
    /\ header.parts[2].signed_with = jwt_secret
    /\ ~(header.parts[2].claims.exp < now)
    /\ parse_str(header.parts[2].claims.sub).tag = "Ok"

\* C24: a request whose Authorization header is missing, does not start
\* with "Bearer ", has nothing after that prefix, or has after it a token
\* that is not a JWT signed with the configured secret, unexpired and with
\* a UUID sub, is answered 401 Unauthorized by auth_middleware and does not
\* reach the protected handler.
C24_OnlyValidBearerAdmitted ==
    (resp.op = "auth_middleware" /\ ~BearerOfValidJwt(resp.header, resp.at)) =>
        /\ resp.out.status = "UNAUTHORIZED"
        /\ ~resp.out.handler

\* C25: optional_auth_middleware always invokes the next handler and never
\* answers with a rejection, and the request carries a UserContext only
\* when the token after "Bearer " is a valid JWT.
C25_OptionalNeverRejects ==
    resp.op = "optional_auth_middleware" =>
        /\ resp.out.handler
        /\ resp.out.status = "OK"
        /\ resp.out.ctx.attached => BearerOfValidJwt(resp.header, resp.at)

\* C29: a refresh token that the last successful login or register issued,
\* presented to refresh_token before its exp, is answered with a new
\* AuthResponse for the user it was issued to; a token that matches no
\* unexpired session is refused with AuthenticationFailed.
C29_IssuedRefreshTokenUsable ==
    resp.op = "refresh_token" =>
        IF resp.issued /\ resp.presented.claims.exp > resp.at
        THEN /\ resp.tag = "Ok"
             /\ resp.user_id = parse_str(resp.presented.claims.sub).uuid
        ELSE find_by_token_hash(hash_token(resp.presented), resp.at) = {} =>
                 resp.tag = "Err" /\ resp.kind = "AuthenticationFailed"

(***************************************************************************)
(* Properties of the wallet and transaction services.                      *)
(***************************************************************************)
\* the operations of the protected routes that name a wallet or transaction
RouteOps ==
    {"get_wallet", "deactivate_wallet", "create_transaction",
     "get_wallet_transactions", "get_transaction", "submit_transaction"}

\* task t completes a request of RouteOps in this step
RouteStep(t) ==
    /\ task[t].pc = "idle" /\ task'[t].pc = "idle"
    /\ task'[t].op \in RouteOps
    /\ <<task[t], wallets, transactions>> # <<task'[t], wallets', transactions'>>

\* the request completed in this step names a transaction that does not
\* exist, or a wallet that does not exist
NamesMissing(t) ==
    IF task'[t].op \in {"get_transaction", "submit_transaction"}
    THEN task'[t].transaction_id \notin 1..Len(transactions)
    ELSE task'[t].wallet_id \notin 1..Len(wallets)

\* the owner of the wallet, or of the transaction's wallet, that it names
OwnerNamed(t) ==
    IF task'[t].op \in {"get_transaction", "submit_transaction"}
    THEN wallets[transactions[task'[t].transaction_id].wallet_id].user_id
    ELSE wallets[task'[t].wallet_id].user_id

\* C27: a request of an authenticated user to read or deactivate a wallet,
\* or to create, list, read or submit a transaction, that names a missing
\* wallet or transaction ends with NotFound, and one that names a wallet
\* or transaction of another user ends with Forbidden; in both cases no
\* row is returned and no table is modified.
C27_OwnershipIsolation ==
    [][\A t \in Tasks :
          RouteStep(t) =>
             IF NamesMissing(t)
             THEN /\ task'[t].kind = "NotFound" /\ task'[t].rows = <<>>
                  /\ UNCHANGED <<wallets, transactions>>
             ELSE OwnerNamed(t) # task'[t].user_id =>
                  /\ task'[t].kind = "Forbidden" /\ task'[t].rows = <<>>
                  /\ UNCHANGED <<wallets, transactions>>]_vars

\* C28: whatever the interleaving of create_wallet calls, no two rows of
\* wallets have the same public key, and a create_wallet that finds its
\* public key stored returns BadRequest and inserts nothing.
C28_PublicKeysUnique ==
    /\ \A i, j \in 1..Len(wallets) :
          i # j => wallets[i].public_key # wallets[j].public_key
    /\ \A t \in Tasks :
          (task[t].pc = "idle" /\ task[t].op = "create_wallet" /\ task[t].stored) =>
              task[t].kind = "BadRequest" /\ task[t].rows = <<>>

\* task t completes a call that runs update_status in this step
UpdateStatusStep(t) ==
    /\ task[t].pc = "idle" /\ task'[t].pc = "idle"
    /\ task'[t].args.status # "none"
    /\ task'[t].transaction_id \in 1..Len(transactions)
    /\ <<task[t], transactions>> # <<task'[t], transactions'>>

\* C30: an update_status call leaves transaction_hash, block_number, fee
\* and error_message as stored when it is passed None for them; it sets
\* confirmed_at to the current time when it sets Confirmed on a row that
\* has none, and leaves a confirmed_at that is set as it is, whatever
\* status it sets.
C30_UpdateStatusPreserves ==
    [][\A t \in Tasks :
          UpdateStatusStep(t) =>
             \E id \in {task'[t].transaction_id} :
                /\ task'[t].args.transaction_hash = None =>
                       transactions'[id].transaction_hash = transactions[id].transaction_hash
                /\ task'[t].args.block_number = None =>
                       transactions'[id].block_number = transactions[id].block_number
                /\ task'[t].args.fee = None =>
                       transactions'[id].fee = transactions[id].fee
                /\ task'[t].args.error_message = None =>
                       transactions'[id].error_message = transactions[id].error_message
                /\ transactions[id].confirmed_at # None =>
                       transactions'[id].confirmed_at = transactions[id].confirmed_at
                /\ (transactions[id].confirmed_at = None
                       /\ task'[t].args.status = "Confirmed") =>
                       transactions'[id].confirmed_at = Some(clock)]_vars

\* C30 witness: a transaction confirmed at an earlier time, with its hash
\* and block number stored, has since been set to Failed by a call that
\* passed None for both, and then kept them and its confirmed_at.
C30_Witness ==
    \E t \in Tasks :
        /\ task[t].pc = "idle" /\ task[t].args.status = "Failed"
        /\ task[t].args.transaction_hash = None /\ task[t].args.block_number = None
        /\ task[t].transaction_id \in 1..Len(transactions)
        /\ \E row \in {transactions[task[t].transaction_id]} :
              /\ row.status = "Failed"
              /\ row.transaction_hash # None /\ row.block_number # None
              /\ row.confirmed_at # None
              /\ row.confirmed_at[1] < clock

====
